---- MODULE Spec2Model ----
(***************************************************************************)
(* Game of Life: the incremental Board (active / stable maps), the naive   *)
(* Board it replaced, Cell.next, and the immutable Timeline.               *)
(*                                                                         *)
(* A JavaScript Map is modelled as the sequence of its entries in          *)
(* insertion order, each entry a record [key, value].  A coordinate key    *)
(* (the string row + "," + column) is modelled as the pair <<row, column>>;*)
(* both are injective in (row, column) over the integers.                  *)
(***************************************************************************)
EXTENDS Integers, Sequences, FiniteSets, TLC

VARIABLES
  activeCells,    \* Board._activeCells   (incremental Board)
  stableCells,    \* Board._stableCells   (incremental Board)
  liveCells,      \* Board._liveCells     (naive Board, same edits applied)
  lastOp,         \* the operation that produced the current state
  nOps,           \* number of operations applied so far
  cellIn,         \* Cell.next: the receiver
  liveNeighbors,  \* Cell.next: the argument
  cellOut,        \* Cell.next: the returned cell (NoCell before the call)
  timeline,       \* the linked-list Timeline the caller holds
  arrTimeline,    \* the array-backed Timeline, given the same calls
  undone,         \* entries undone by previous() and not yet redone (linked list)
  arrUndone,      \* the same for the array-backed Timeline
  tlLast,         \* the Timeline call that produced the current state
  listHeap,       \* linked-list Timeline objects and the Nodes they point to
  arrHeap,        \* array-backed Timeline objects and the arrays they point to
  seed,           \* the seeded Board scenario: cells still to set, steps taken
  patCells,       \* Pattern._liveCells of the pattern the caller holds
  patLast,        \* the Pattern call that produced the current state
  rleIn,          \* the lines of the text given to the run-length decoder
  rleOut,         \* what cellsFromRle and Pattern.fromPreset made of it
  life,           \* the Life components of the three revisions and their timers
  lifeLast,       \* the event that produced the current state of life
  drag,           \* the Drag the caller holds
  dragLast,       \* the Drag call that produced the current state
  motion,         \* the DragMotion the caller holds
  motionLast,     \* the DragMotion call that produced the current state
  zoom,           \* the cell size of a Life component and of its Grid
  zoomLast,       \* the zoom event that produced the current state
  app,            \* the state of the React Life component with its Timeline
  appLast,        \* the handler that produced the current state of app
  canvas,         \* the React Board's _drag and the left mouse button
  canvasLast      \* the canvas event that produced the current state

boardVars == <<activeCells, stableCells, liveCells, lastOp, nOps>>
cellVars  == <<cellIn, liveNeighbors, cellOut>>
timelineVars == <<timeline, arrTimeline, undone, arrUndone, tlLast>>
heapVars  == <<listHeap, arrHeap>>
seedVars  == <<seed>>
patternVars == <<patCells, patLast>>
rleVars   == <<rleIn, rleOut>>
lifeVars  == <<life, lifeLast>>
dragVars  == <<drag, dragLast>>
motionVars == <<motion, motionLast>>
zoomVars  == <<zoom, zoomLast>>
appVars   == <<app, appLast>>
canvasVars == <<canvas, canvasLast>>
uiVars    == <<motionVars, zoomVars, appVars, canvasVars>>
vars      == <<activeCells, stableCells, liveCells, lastOp, nOps,
               cellIn, liveNeighbors, cellOut,
               timeline, arrTimeline, undone, arrUndone, tlLast,
               listHeap, arrHeap, seed, patCells, patLast,
               rleIn, rleOut, life, lifeLast, drag, dragLast,
               motion, motionLast, zoom, zoomLast, app, appLast,
               canvas, canvasLast>>

(***************************************************************************)
(* Bounds                                                                  *)
(***************************************************************************)
MaxRow == 1
MaxCol == 2
MaxOps == 4
MaxCellCoord == 1
MaxPast == 3
MaxUnderflow == 1
MaxTimelines == 3
MaxSeedSteps == 4
MaxPatternCells == 3
MaxPatCoord == 1
MaxCenter == 1
MaxPatExtent == 2
MaxRleLen == 4
MaxDragCoord == 2
MaxWiggle == 2
MaxTimers == 5
MaxMotionX == 5
MaxMotionY == 1
MaxSliderHalves == 202
MaxWheelHalves == 5
MaxAppCoord == 1
MaxAppPast == 2
MaxCanvasX == 5
MaxCanvasY == 1

EditRows == 0..MaxRow
EditCols == 0..MaxCol

(***************************************************************************)
(* Cell                                                                    *)
(***************************************************************************)
Cell(row, column, alive) == [row |-> row, column |-> column, alive |-> alive]

NoCell == [row |-> 0, column |-> 0, alive |-> FALSE, none |-> TRUE]

\* Cell.next with the survival test off by one (a live cell with 3 dies)
CellNextOffByOne(cell, numLiveNeighbors) ==
  IF cell.alive /\ (numLiveNeighbors < 2 \/ numLiveNeighbors >= 3)
    THEN Cell(cell.row, cell.column, FALSE)
  ELSE IF ~cell.alive /\ numLiveNeighbors = 3
    THEN Cell(cell.row, cell.column, TRUE)
  ELSE cell

\* Cell.next that also brings a dead cell without live neighbors to life
CellNextBirthsAlone(cell, numLiveNeighbors) ==
  IF cell.alive /\ (numLiveNeighbors < 2 \/ numLiveNeighbors > 3)
    THEN Cell(cell.row, cell.column, FALSE)
  ELSE IF ~cell.alive /\ (numLiveNeighbors = 3 \/ numLiveNeighbors = 0)
    THEN Cell(cell.row, cell.column, TRUE)
  ELSE cell

\* Cell.next(numLiveNeighbors)
CellNext(cell, numLiveNeighbors) ==
  IF cell.alive /\ (numLiveNeighbors < 2 \/ numLiveNeighbors > 3)
    THEN Cell(cell.row, cell.column, FALSE)
  ELSE IF ~cell.alive /\ numLiveNeighbors = 3
    THEN Cell(cell.row, cell.column, TRUE)
  ELSE cell

(***************************************************************************)
(* JavaScript Map, in insertion order                                      *)
(***************************************************************************)
EmptyMap == <<>>

MapKeys(m) == {m[i].key : i \in 1..Len(m)}

MapHas(m, key) == \E i \in 1..Len(m) : m[i].key = key

MapGet(m, key) == m[CHOOSE i \in 1..Len(m) : m[i].key = key].value

MapSet(m, key, value) ==
  IF MapHas(m, key)
    THEN [m EXCEPT ![CHOOSE i \in 1..Len(m) : m[i].key = key] =
                     [key |-> key, value |-> value]]
    ELSE Append(m, [key |-> key, value |-> value])

MapDelete(m, key) ==
  IF MapHas(m, key)
    THEN LET i == CHOOSE j \in 1..Len(m) : m[j].key = key
         IN  SubSeq(m, 1, i - 1) \o SubSeq(m, i + 1, Len(m))
    ELSE m

MapValues(m) == [i \in 1..Len(m) |-> m[i].value]

\* cells.filter(cell => cell.alive): the alive cells, in their order in cells
FilterAlive(cells) ==
  LET kept == {i \in 1..Len(cells) : cells[i].alive}
  IN  [j \in 1..Cardinality(kept) |->
         cells[CHOOSE i \in kept : Cardinality({x \in kept : x <= i}) = j]]

keyFromCoordinates(row, column) == <<row, column>>

keyFromCell(cell) == keyFromCoordinates(cell.row, cell.column)

(***************************************************************************)
(* Incremental Board.  A board value is [active |-> Map, stable |-> Map].  *)
(***************************************************************************)
Board(active, stable) == [active |-> active, stable |-> stable]

\* Board.get(row, column)
Get(b, row, column) ==
  LET key == keyFromCoordinates(row, column) IN
  IF MapHas(b.active, key) THEN MapGet(b.active, key)
  ELSE IF MapHas(b.stable, key) THEN MapGet(b.stable, key)
  ELSE Cell(row, column, FALSE)

\* the (i, j) pairs visited by the two nested loops of Board._neighbors
NeighborOffsets ==
  << <<-1, -1>>, <<-1, 0>>, <<-1, 1>>,
     << 0, -1>>,            << 0, 1>>,
     << 1, -1>>, << 1, 0>>, << 1, 1>> >>

\* Board._neighbors without the test that leaves the cell itself out
NeighborsWithSelf(b, cell) ==
  [k \in 1..9 |-> Get(b, cell.row + ((k - 1) \div 3) - 1, cell.column + ((k - 1) % 3) - 1)]

\* Board._neighbors(cell)
Neighbors(b, cell) ==
  [k \in 1..Len(NeighborOffsets) |->
     Get(b, cell.row + NeighborOffsets[k][1], cell.column + NeighborOffsets[k][2])]

\* this._neighbors(cell).filter(neighbor => neighbor.alive).length
NumLiveNeighbors(b, cell) ==
  Len(FilterAlive(Neighbors(b, cell)))

\* body of the activation loops without the _stableCells.delete
ActivateOneKeepStable(b, neighbor) ==
  [b EXCEPT !.active = MapSet(@, keyFromCell(neighbor), neighbor)]

\* body of the activation loops:
\*   _activeCells.set(keyFromCell(neighbor), neighbor);
\*   _stableCells.delete(keyFromCell(neighbor));
ActivateOne(b, neighbor) ==
  [b EXCEPT !.active = MapSet(@, keyFromCell(neighbor), neighbor),
            !.stable = MapDelete(@, keyFromCell(neighbor))]

\* for (const neighbor of neighbors) { ... }: the board after the first k
\* iterations of the loop
RECURSIVE Activate(_, _, _)
Activate(b, neighbors, k) ==
  IF k = 0 THEN b
  ELSE ActivateOne(Activate(b, neighbors, k - 1), neighbors[k])

\* Board.set without the "new state is different" test
SetUnconditional(b, row, column, alive) ==
  LET key  == keyFromCoordinates(row, column)
      cell == Cell(row, column, alive)
      b1   == Board(MapSet(b.active, key, cell), MapDelete(b.stable, key))
  IN  Activate(b1, Neighbors(b1, cell), Len(Neighbors(b1, cell)))

\* Board.set that leaves the changed cell's own key in _stableCells
SetKeepStable(b, row, column, alive) ==
  IF alive # Get(b, row, column).alive
    THEN LET key  == keyFromCoordinates(row, column)
             cell == Cell(row, column, alive)
             b1   == Board(MapSet(b.active, key, cell), b.stable)
         IN  Activate(b1, Neighbors(b1, cell), Len(Neighbors(b1, cell)))
    ELSE b

\* Board.set that activates the changed cell only, not its neighbors
SetSkipsNeighbors(b, row, column, alive) ==
  IF alive # Get(b, row, column).alive
    THEN LET key  == keyFromCoordinates(row, column)
             cell == Cell(row, column, alive)
         IN  Board(MapSet(b.active, key, cell), MapDelete(b.stable, key))
    ELSE b

\* Board.set(row, column, alive)
Set(b, row, column, alive) ==
  IF alive # Get(b, row, column).alive
    THEN LET key  == keyFromCoordinates(row, column)
             cell == Cell(row, column, alive)
             b1   == Board(MapSet(b.active, key, cell), MapDelete(b.stable, key))
         IN  Activate(b1, Neighbors(b1, cell), Len(Neighbors(b1, cell)))
    ELSE b

\* Board.add that passes each cell's own aliveness to set
RECURSIVE AddSetsDead(_, _, _)
AddSetsDead(b, pattern, k) ==
  IF k = 0 THEN b
  ELSE Set(AddSetsDead(b, pattern, k - 1), pattern[k].row, pattern[k].column,
           pattern[k].alive)

\* Board.add(pattern): pattern is the sequence of cells the pattern iterates
\* over; the board after the first k iterations of the loop
RECURSIVE Add(_, _, _)
Add(b, pattern, k) ==
  IF k = 0 THEN b
  ELSE IF pattern[k].alive
    THEN Set(Add(b, pattern, k - 1), pattern[k].row, pattern[k].column, TRUE)
    ELSE Add(b, pattern, k - 1)

\* Board.clear()
Clear(b) == Board(EmptyMap, EmptyMap)

\* Board.step(), body of the first loop, keeping an unchanged dead cell active
StepCalculateOneKeepsDead(st, key, cell) ==
  LET next == CellNext(cell, NumLiveNeighbors(Board(st.active, st.stable), cell))
  IN  IF cell.alive # next.alive
        THEN [st EXCEPT !.next = MapSet(@, key, next)]
      ELSE IF next.alive
        THEN [st EXCEPT !.stable = MapSet(@, key, next)]
      ELSE [st EXCEPT !.next = MapSet(@, key, next)]

\* Board.step(), body of the first loop, keeping an unchanged live cell active
StepCalculateOneKeepsAlive(st, key, cell) ==
  LET next == CellNext(cell, NumLiveNeighbors(Board(st.active, st.stable), cell))
  IN  IF cell.alive # next.alive \/ next.alive
        THEN [st EXCEPT !.next = MapSet(@, key, next)]
      ELSE st

\* Board.step(), body of the first loop, without the branch that keeps an
\* unchanged live cell in _stableCells
StepCalculateOneDropsStable(st, key, cell) ==
  LET next == CellNext(cell, NumLiveNeighbors(Board(st.active, st.stable), cell))
  IN  IF cell.alive # next.alive
        THEN [st EXCEPT !.next = MapSet(@, key, next)]
      ELSE st

\* Board.step(), body of the first loop for the entry [key, cell] of the old
\* _activeCells: st.active is the old map (replaced only after the loop),
\* st.stable is this._stableCells, st.next is nextActiveCells.
StepCalculateOne(st, key, cell) ==
  LET next == CellNext(cell, NumLiveNeighbors(Board(st.active, st.stable), cell))
  IN  IF cell.alive # next.alive
        THEN [st EXCEPT !.next = MapSet(@, key, next)]
      ELSE IF next.alive
        THEN [st EXCEPT !.stable = MapSet(@, key, next)]
      ELSE st

\* Board.step(), first loop, from the i-th entry of the old _activeCells on
RECURSIVE StepCalculate(_, _)
StepCalculate(st, i) ==
  IF i > Len(st.active) THEN st
  ELSE StepCalculate(StepCalculateOne(st, st.active[i].key, st.active[i].value), i + 1)

\* Board.step(), body of the second loop for one changed cell
StepActivateOne(st, cell) ==
  LET b == Activate(Board(st.active, st.stable),
                    Neighbors(Board(st.active, st.stable), cell),
                    Len(NeighborOffsets))
  IN  [st EXCEPT !.active = b.active, !.stable = b.stable]

\* Board.step() without its second loop
StepActivateNothing(st, i) == st

\* Board.step(), second loop, from the i-th cell of
\* st.changed = Array.from(this._activeCells.values()) on
RECURSIVE StepActivate(_, _)
StepActivate(st, i) ==
  IF i > Len(st.changed) THEN st
  ELSE StepActivate(StepActivateOne(st, st.changed[i]), i + 1)

\* Board.step()
Step(b) ==
  LET calculated == StepCalculate([active |-> b.active, stable |-> b.stable,
                                   next |-> EmptyMap], 1)
      activated  == StepActivate([active |-> calculated.next,
                                  stable |-> calculated.stable,
                                  changed |-> MapValues(calculated.next)], 1)
  IN  Board(activated.active, activated.stable)

\* Board.liveCells without the test of cell.alive
LiveCellsYieldsDead(b) ==
  MapValues(b.active) \o MapValues(b.stable)

\* Board.liveCells(): the cells the generator yields, in order
LiveCells(b) ==
  FilterAlive(MapValues(b.active)) \o MapValues(b.stable)

(***************************************************************************)
(* Naive Board (earlier revision): one map of live cells.                  *)
(***************************************************************************)
\* Board.get(row, column)
NaiveGet(live, row, column) ==
  LET key == keyFromCoordinates(row, column) IN
  IF MapHas(live, key) THEN MapGet(live, key) ELSE Cell(row, column, FALSE)

\* Board.toggle(row, column)
NaiveToggle(live, row, column) ==
  LET key == keyFromCoordinates(row, column) IN
  IF MapHas(live, key) THEN MapDelete(live, key)
  ELSE MapSet(live, key, Cell(row, column, TRUE))

\* Board._neighbors(cell)
NaiveNeighbors(live, cell) ==
  [k \in 1..Len(NeighborOffsets) |->
     NaiveGet(live, cell.row + NeighborOffsets[k][1],
                    cell.column + NeighborOffsets[k][2])]

\* Board._numLiveNeighbors(cell)
NaiveNumLiveNeighbors(live, cell) ==
  Len(FilterAlive(NaiveNeighbors(live, cell)))

\* nextCells.set(Board._toMapKey(cell), cell.next(this._numLiveNeighbors(cell)))
NaiveStepSet(live, nextCells, cell) ==
  MapSet(nextCells, keyFromCell(cell), CellNext(cell, NaiveNumLiveNeighbors(live, cell)))

\* inner loop of the naive step over the neighbours of a live cell: nextCells
\* after the first k iterations
RECURSIVE NaiveStepNeighbors(_, _, _, _)
NaiveStepNeighbors(live, nextCells, neighbors, k) ==
  IF k = 0 THEN nextCells
  ELSE NaiveStepSet(live, NaiveStepNeighbors(live, nextCells, neighbors, k - 1),
                    neighbors[k])

\* body of the outer loop of the naive step for one live cell
NaiveStepOne(st, cell) ==
  [st EXCEPT !.nextCells =
     NaiveStepNeighbors(st.live, NaiveStepSet(st.live, @, cell),
                        NaiveNeighbors(st.live, cell), Len(NeighborOffsets))]

\* outer loop of the naive step, from the i-th live cell on
RECURSIVE NaiveStepCells(_, _)
NaiveStepCells(st, i) ==
  IF i > Len(st.live) THEN st
  ELSE NaiveStepCells(NaiveStepOne(st, st.live[i].value), i + 1)

\* second loop of the naive step, from the i-th cell of nextCells.values() on:
\* a dead cell is deleted from nextCells when the iteration visits it
RECURSIVE NaiveStepRemoveDead(_, _)
NaiveStepRemoveDead(st, i) ==
  IF i > Len(st.cells) THEN st
  ELSE IF ~st.cells[i].alive
    THEN NaiveStepRemoveDead(
           [st EXCEPT !.nextCells = MapDelete(@, keyFromCell(st.cells[i]))], i + 1)
    ELSE NaiveStepRemoveDead(st, i + 1)

\* Board.step() of the naive Board
NaiveStep(live) ==
  LET calculated == NaiveStepCells([live |-> live, nextCells |-> EmptyMap], 1)
  IN  NaiveStepRemoveDead([nextCells |-> calculated.nextCells,
                           cells |-> MapValues(calculated.nextCells)], 1).nextCells

\* an edit applied to the plain live-cell map: the cell is toggled when its
\* aliveness differs from the requested one
NaiveSet(live, row, column, alive) ==
  IF NaiveGet(live, row, column).alive # alive
    THEN NaiveToggle(live, row, column)
    ELSE live

\* the cells of a pattern applied to the plain live-cell map, first k cells
RECURSIVE NaiveAdd(_, _, _)
NaiveAdd(live, pattern, k) ==
  IF k = 0 THEN live
  ELSE IF pattern[k].alive
    THEN NaiveSet(NaiveAdd(live, pattern, k - 1), pattern[k].row, pattern[k].column, TRUE)
    ELSE NaiveAdd(live, pattern, k - 1)

(***************************************************************************)
(* Derived views                                                           *)
(***************************************************************************)
board == Board(activeCells, stableCells)

\* coordinates of the cells yielded by liveCells()
LiveCoords(b) == {keyFromCell(LiveCells(b)[i]) : i \in 1..Len(LiveCells(b))}

NaiveLiveCoords(live) == {keyFromCell(live[i].value) : i \in 1..Len(live)}

\* the keys of the active cells whose aliveness the next step() changes
Changing(b) ==
  {b.active[i].key : i \in {j \in 1..Len(b.active) :
     CellNext(b.active[j].value, NumLiveNeighbors(b, b.active[j].value)).alive
       # b.active[j].value.alive}}

NeighborKeys(row, column) ==
  {keyFromCoordinates(row + NeighborOffsets[k][1], column + NeighborOffsets[k][2]) :
     k \in 1..Len(NeighborOffsets)}

(***************************************************************************)
(* Patterns offered to Board.add                                           *)
(***************************************************************************)
BlockPattern ==
  << Cell(0, 0, TRUE), Cell(0, 1, TRUE), Cell(1, 0, TRUE), Cell(1, 1, TRUE) >>

BlinkerPattern == << Cell(0, 0, TRUE), Cell(0, 1, TRUE), Cell(0, 2, TRUE) >>

CornerPattern == << Cell(0, 1, TRUE), Cell(1, 1, TRUE), Cell(1, 2, TRUE) >>

\* a pattern whose cell list holds a dead cell
GapPattern == << Cell(0, 0, TRUE), Cell(0, 1, FALSE), Cell(1, 1, TRUE) >>

AddPatterns == {BlockPattern, BlinkerPattern, CornerPattern, GapPattern}

(***************************************************************************)
(* Pattern as the Timeline uses it: new Pattern(), pattern.empty and       *)
(* pattern.next().  A pattern is the set of its live coordinates.          *)
(***************************************************************************)
\* new Pattern()
EmptyPattern == {}

\* Pattern.empty
PatternEmpty(pattern) == pattern = {}

\* Pattern.next(): every live cell and every neighbour of a live cell gets the
\* state Cell.next gives it for its number of live neighbours.
PatternNext(pattern) ==
  {k \in pattern \cup UNION {NeighborKeys(q[1], q[2]) : q \in pattern} :
     CellNext(Cell(k[1], k[2], k \in pattern),
              Cardinality(NeighborKeys(k[1], k[2]) \cap pattern)).alive}

DotLive == {<<0, 0>>}

BlockLive == {<<0, 0>>, <<0, 1>>, <<1, 0>>, <<1, 1>>}

BlinkerLive == {<<0, 0>>, <<0, 1>>, <<0, 2>>}

\* the patterns handed to Timeline.with
TimelinePatterns == {EmptyPattern, DotLive, BlockLive, BlinkerLive}

(***************************************************************************)
(* Linked-list Timeline.  A Node list is the sequence of its nodes, head   *)
(* first, and null is the empty sequence; nodes are frozen, so a list is   *)
(* determined by its contents.                                             *)
(***************************************************************************)
Null == <<>>

\* new Node(pattern, generation, next)
Node(pattern, generation, next) ==
  <<[pattern |-> pattern, generation |-> generation]>> \o next

\* new Timeline(): the field initialisers
NewTimeline ==
  [pattern |-> EmptyPattern, generation |-> 0, past |-> Null, future |-> Null]

\* Timeline.with that keeps the future list
WithKeepFuture(t, pattern) ==
  [NewTimeline EXCEPT !.pattern = pattern,
                      !.past = Node(t.pattern, t.generation, t.past),
                      !.future = t.future]

\* Timeline.with that carries the generation over
WithKeepsGeneration(t, pattern) ==
  [NewTimeline EXCEPT !.pattern = pattern,
                      !.generation = t.generation,
                      !.past = Node(t.pattern, t.generation, t.past)]

\* Timeline.with(pattern)
With(t, pattern) ==
  [NewTimeline EXCEPT !.pattern = pattern,
                      !.past = Node(t.pattern, t.generation, t.past)]

\* Timeline.next whose redo branch counts the generation up instead of
\* restoring it
TimelineNextRedoCounts(t) ==
  IF t.future = Null /\ PatternEmpty(t.pattern) THEN t
  ELSE IF t.future = Null
    THEN [NewTimeline EXCEPT !.pattern = PatternNext(t.pattern),
                             !.generation = t.generation + 1,
                             !.past = Node(t.pattern, t.generation, t.past)]
  ELSE [pattern |-> t.future[1].pattern,
        generation |-> t.generation + 1,
        past |-> Node(t.pattern, t.generation, t.past),
        future |-> Tail(t.future)]

\* Timeline.next that records the stepped pattern instead of the present one
TimelineNextRecordsNew(t) ==
  IF t.future = Null /\ PatternEmpty(t.pattern) THEN t
  ELSE IF t.future = Null
    THEN [NewTimeline EXCEPT !.pattern = PatternNext(t.pattern),
                             !.generation = t.generation + 1,
                             !.past = Node(PatternNext(t.pattern), t.generation, t.past)]
  ELSE [pattern |-> t.future[1].pattern,
        generation |-> t.future[1].generation,
        past |-> Node(t.pattern, t.generation, t.past),
        future |-> Tail(t.future)]

\* Timeline.next without the test for an empty present
TimelineNextStepsEmpty(t) ==
  IF t.future = Null
    THEN [NewTimeline EXCEPT !.pattern = PatternNext(t.pattern),
                             !.generation = t.generation + 1,
                             !.past = Node(t.pattern, t.generation, t.past)]
  ELSE [pattern |-> t.future[1].pattern,
        generation |-> t.future[1].generation,
        past |-> Node(t.pattern, t.generation, t.past),
        future |-> Tail(t.future)]

\* Timeline.next()
TimelineNext(t) ==
  IF t.future = Null /\ PatternEmpty(t.pattern) THEN t
  ELSE IF t.future = Null
    THEN [NewTimeline EXCEPT !.pattern = PatternNext(t.pattern),
                             !.generation = t.generation + 1,
                             !.past = Node(t.pattern, t.generation, t.past)]
  ELSE [pattern |-> t.future[1].pattern,
        generation |-> t.future[1].generation,
        past |-> Node(t.pattern, t.generation, t.past),
        future |-> Tail(t.future)]

\* Timeline.hasPrevious()
HasPrevious(t) == t.past # Null

\* the outcome of a call: a returned timeline, or a thrown Error
Returned(t) == [threw |-> FALSE, error |-> "", timeline |-> t]

Thrown(message) == [threw |-> TRUE, error |-> message, timeline |-> NewTimeline]

\* Timeline.previous that also refuses to go back to the oldest entry
PreviousKeepsOldest(t) ==
  IF ~HasPrevious(t) \/ Tail(t.past) = Null THEN Thrown("No previous pattern")
  ELSE Returned([pattern |-> t.past[1].pattern,
                 generation |-> t.past[1].generation,
                 past |-> Tail(t.past),
                 future |-> Node(t.pattern, t.generation, t.future)])

\* Timeline.previous that does not put the present on the future list
PreviousDropsPresent(t) ==
  IF ~HasPrevious(t) THEN Thrown("No previous pattern")
  ELSE Returned([pattern |-> t.past[1].pattern,
                 generation |-> t.past[1].generation,
                 past |-> Tail(t.past),
                 future |-> t.future])

\* Timeline.previous that counts the generation down instead of restoring it
PreviousCountsDown(t) ==
  IF ~HasPrevious(t) THEN Thrown("No previous pattern")
  ELSE Returned([pattern |-> t.past[1].pattern,
                 generation |-> t.generation - 1,
                 past |-> Tail(t.past),
                 future |-> Node(t.pattern, t.generation, t.future)])

\* Timeline.previous()
Previous(t) ==
  IF ~HasPrevious(t) THEN Thrown("No previous pattern")
  ELSE Returned([pattern |-> t.past[1].pattern,
                 generation |-> t.past[1].generation,
                 past |-> Tail(t.past),
                 future |-> Node(t.pattern, t.generation, t.future)])

(***************************************************************************)
(* Array-backed Timeline: _patterns is a sequence of entries and _index a  *)
(* 0-based index into it.                                                  *)
(***************************************************************************)
\* JavaScript values that are not numbers
Undefined == [type |-> "undefined"]

Number(n) == [type |-> "number", value |-> n]

\* a === b
StrictEquals(a, b) == a = b

Entry(generation, pattern) == [generation |-> generation, pattern |-> pattern]

\* array[i] for a 0-based i: undefined outside the array
ArrayAt(array, i) == IF i \in 0..(Len(array) - 1) THEN array[i + 1] ELSE Undefined

\* array.slice(0, end): a negative end counts from the end of the array
ArraySlice(array, end) ==
  IF end >= 0 THEN SubSeq(array, 1, IF end < Len(array) THEN end ELSE Len(array))
  ELSE SubSeq(array, 1, IF Len(array) + end > 0 THEN Len(array) + end ELSE 0)

\* new Timeline(): the field initialisers
ArrNewTimeline == [patterns |-> <<Entry(0, EmptyPattern)>>, index |-> 0]

\* this._patterns[this._index], which both getters read
ArrEntry(t) == ArrayAt(t.patterns, t.index)

\* the array-backed timeline has a present entry
ArrHasPresent(t) == ArrEntry(t) # Undefined

\* get generation
ArrGeneration(t) == ArrEntry(t).generation

\* get pattern
ArrPattern(t) == ArrEntry(t).pattern

\* get patternsBefore
ArrPatternsBefore(t) == t.index

\* get patternsAfter
ArrPatternsAfter(t) == Len(t.patterns) - t.index - 1

\* this.entriesBefore: the class defines no such property
ArrEntriesBefore(t) == Undefined

\* Timeline.with(pattern)
ArrWith(t, pattern) ==
  LET patterns == ArraySlice(t.patterns, t.index + 1) \o <<Entry(0, pattern)>>
  IN  [patterns |-> patterns, index |-> Len(patterns) - 1]

\* Timeline.next that numbers the stepped entry like the present one
ArrNextKeepsGeneration(t) ==
  IF ArrPatternsAfter(t) = 0 /\ PatternEmpty(ArrPattern(t)) THEN t
  ELSE IF ArrPatternsAfter(t) = 0
    THEN LET patterns == t.patterns \o
                           <<Entry(ArrGeneration(t), PatternNext(ArrPattern(t)))>>
         IN  [patterns |-> patterns, index |-> Len(patterns) - 1]
  ELSE [patterns |-> t.patterns, index |-> t.index + 1]

\* Timeline.next()
ArrNext(t) ==
  IF ArrPatternsAfter(t) = 0 /\ PatternEmpty(ArrPattern(t)) THEN t
  ELSE IF ArrPatternsAfter(t) = 0
    THEN LET patterns == t.patterns \o
                           <<Entry(ArrGeneration(t) + 1, PatternNext(ArrPattern(t)))>>
         IN  [patterns |-> patterns, index |-> Len(patterns) - 1]
  ELSE [patterns |-> t.patterns, index |-> t.index + 1]

\* Timeline.previous()
ArrPrevious(t) ==
  IF StrictEquals(ArrEntriesBefore(t), Number(0)) THEN Thrown("No previous pattern")
  ELSE Returned([patterns |-> t.patterns, index |-> t.index - 1])

\* the entries that successive next() calls would move to, nearest first
ArrFuture(t) == [j \in 1..ArrPatternsAfter(t) |-> ArrayAt(t.patterns, t.index + j)]

(***************************************************************************)
(* Timeline objects on the heap.  A reference is the position of an object *)
(* in its heap sequence and 0 is null.  An operation allocates the objects *)
(* its code creates with new (or an array literal) and shares the ones it  *)
(* only assigns.                                                           *)
(***************************************************************************)
\* the heap after new Timeline() in the linked-list revision
NewListHeap == [nodes |-> <<>>, timelines |-> <<[pattern |-> EmptyPattern, generation |-> 0, past |-> 0, future |-> 0]>>]

\* new Node(pattern, generation, next): a frozen object at a fresh reference
HeapNode(h, pattern, generation, next) ==
  [h EXCEPT !.nodes = Append(@, [pattern |-> pattern, generation |-> generation, next |-> next])]

\* the reference of the object allocated last
LastNode(h) == Len(h.nodes)

\* const timeline = new Timeline(); ...; return timeline
HeapTimeline(h, pattern, generation, past, future) ==
  [h EXCEPT !.timelines = Append(@, [pattern |-> pattern, generation |-> generation, past |-> past, future |-> future])]

\* Timeline.with(pattern) called on the object at reference t
HeapWith(h, t, pattern) ==
  LET this == h.timelines[t]
      h1   == HeapNode(h, this.pattern, this.generation, this.past)
  IN  HeapTimeline(h1, pattern, 0, LastNode(h1), 0)

\* Timeline.next() called on the object at reference t
HeapNext(h, t) ==
  LET this == h.timelines[t]
      h1   == HeapNode(h, this.pattern, this.generation, this.past)
  IN  IF this.future = 0 /\ PatternEmpty(this.pattern) THEN h
      ELSE IF this.future = 0
        THEN HeapTimeline(h1, PatternNext(this.pattern), this.generation + 1, LastNode(h1), 0)
      ELSE HeapTimeline(h1, h.nodes[this.future].pattern, h.nodes[this.future].generation,
                        LastNode(h1), h.nodes[this.future].next)

\* Timeline.previous() called on the object at reference t; a throw allocates
\* nothing
HeapPrevious(h, t) ==
  LET this == h.timelines[t]
      h1   == HeapNode(h, this.pattern, this.generation, this.future)
  IN  IF this.past = 0 THEN h
      ELSE HeapTimeline(h1, h.nodes[this.past].pattern, h.nodes[this.past].generation,
                        h.nodes[this.past].next, LastNode(h1))

\* the Node list that starts at a reference, as the list of its nodes
RECURSIVE NodeList(_, _)
NodeList(h, ref) ==
  IF ref = 0 THEN Null
  ELSE Node(h.nodes[ref].pattern, h.nodes[ref].generation, NodeList(h, h.nodes[ref].next))

\* the timeline a reference denotes: its fields with the lists followed
ListValue(h, t) ==
  [pattern |-> h.timelines[t].pattern, generation |-> h.timelines[t].generation,
   past |-> NodeList(h, h.timelines[t].past), future |-> NodeList(h, h.timelines[t].future)]

\* the heap after new Timeline() in the array-backed revision
NewArrHeap == [arrays |-> <<ArrNewTimeline.patterns>>, timelines |-> <<[patterns |-> 1, index |-> 0]>>]

\* an array literal: a new array at a fresh reference
HeapArray(h, entries) == [h EXCEPT !.arrays = Append(@, entries)]

LastArray(h) == Len(h.arrays)

HeapArrTimeline(h, patterns, index) ==
  [h EXCEPT !.timelines = Append(@, [patterns |-> patterns, index |-> index])]

\* the array-backed timeline a reference denotes
ArrValue(h, t) == [patterns |-> h.arrays[h.timelines[t].patterns], index |-> h.timelines[t].index]

\* Timeline.with(pattern), array-backed: a new array from the slice
ArrHeapWith(h, t, pattern) ==
  LET h1 == HeapArray(h, ArrWith(ArrValue(h, t), pattern).patterns)
  IN  HeapArrTimeline(h1, LastArray(h1), Len(h1.arrays[LastArray(h1)]) - 1)

\* Timeline.next that appends to this._patterns in place with push
ArrHeapNextPushes(h, t) ==
  LET this == ArrValue(h, t)
      ref  == h.timelines[t].patterns
      h1   == [h EXCEPT !.arrays[ref] =
                 Append(@, Entry(ArrGeneration(this) + 1, PatternNext(ArrPattern(this))))]
  IN  IF ArrPatternsAfter(this) = 0 /\ PatternEmpty(ArrPattern(this)) THEN h
      ELSE IF ArrPatternsAfter(this) = 0
        THEN HeapArrTimeline(h1, ref, Len(h1.arrays[ref]) - 1)
      ELSE HeapArrTimeline(h, ref, this.index + 1)

\* Timeline.next(), array-backed: a new array when it steps, the same array
\* when it moves into the recorded future
ArrHeapNext(h, t) ==
  LET this == ArrValue(h, t)
      h1   == HeapArray(h, ArrNext(this).patterns)
  IN  IF ArrPatternsAfter(this) = 0 /\ PatternEmpty(ArrPattern(this)) THEN h
      ELSE IF ArrPatternsAfter(this) = 0
        THEN HeapArrTimeline(h1, LastArray(h1), Len(h1.arrays[LastArray(h1)]) - 1)
      ELSE HeapArrTimeline(h, h.timelines[t].patterns, this.index + 1)

\* Timeline.previous(), array-backed: the same array, one index back
ArrHeapPrevious(h, t) ==
  IF ArrPrevious(ArrValue(h, t)).threw THEN h
  ELSE HeapArrTimeline(h, h.timelines[t].patterns, h.timelines[t].index - 1)

\* what a caller can see of a timeline: its getters and what next() and
\* previous() would return
ListView(h, t) ==
  [pattern |-> ListValue(h, t).pattern, generation |-> ListValue(h, t).generation,
   hasPrevious |-> HasPrevious(ListValue(h, t)),
   next |-> TimelineNext(ListValue(h, t)), previous |-> Previous(ListValue(h, t))]

ArrView(h, t) ==
  [entry |-> ArrEntry(ArrValue(h, t)),
   patternsBefore |-> ArrPatternsBefore(ArrValue(h, t)),
   patternsAfter |-> ArrPatternsAfter(ArrValue(h, t)),
   next |-> ArrNext(ArrValue(h, t)),
   previous |-> ArrPrevious(ArrValue(h, t))]

(***************************************************************************)
(* Pattern (pattern.js): _liveCells is the sequence of the live cells the  *)
(* constructor was given.  Math.max and Math.min of no arguments are       *)
(* -Infinity and Infinity, so the numbers the getters compute are          *)
(* JavaScript numbers: an integer, an infinity or NaN.                     *)
(***************************************************************************)
Finite(n) == [special |-> "", value |-> n]

PosInfinity == [special |-> "Infinity", value |-> 0]

NegInfinity == [special |-> "-Infinity", value |-> 0]

NaN == [special |-> "NaN", value |-> 0]

IsFinite(x) == x.special = ""

\* -x
JsNegate(x) ==
  IF IsFinite(x) THEN Finite(0 - x.value)
  ELSE IF x = PosInfinity THEN NegInfinity
  ELSE IF x = NegInfinity THEN PosInfinity
  ELSE NaN

\* a + b
JsAdd(a, b) ==
  IF a = NaN \/ b = NaN THEN NaN
  ELSE IF IsFinite(a) /\ IsFinite(b) THEN Finite(a.value + b.value)
  ELSE IF IsFinite(a) THEN b
  ELSE IF IsFinite(b) THEN a
  ELSE IF a = b THEN a
  ELSE NaN

\* a - b
JsSubtract(a, b) == JsAdd(a, JsNegate(b))

\* Math.max(...xs) for a sequence of integers
MathMax(xs) ==
  IF Len(xs) = 0 THEN NegInfinity
  ELSE Finite(CHOOSE m \in {xs[i] : i \in 1..Len(xs)} : \A i \in 1..Len(xs) : xs[i] <= m)

\* Math.min(...xs) for a sequence of integers
MathMin(xs) ==
  IF Len(xs) = 0 THEN PosInfinity
  ELSE Finite(CHOOSE m \in {xs[i] : i \in 1..Len(xs)} : \A i \in 1..Len(xs) : m <= xs[i])

\* Math.floor(x / 2)
MathFloorHalf(x) == IF IsFinite(x) THEN Finite(x.value \div 2) ELSE x

\* Math.round(x / 2): the nearest integer, a half rounded towards +Infinity
MathRoundHalf(x) == IF IsFinite(x) THEN Finite((x.value + 1) \div 2) ELSE x

\* new Pattern(cells)
NewPattern(cells) == FilterAlive(cells)

\* this._liveCells.map(cell => cell.row) and the same for columns
Rows(pattern) == [i \in 1..Len(pattern) |-> pattern[i].row]

Columns(pattern) == [i \in 1..Len(pattern) |-> pattern[i].column]

\* get width
Width(pattern) ==
  IF Len(pattern) = 0 THEN Finite(0)
  ELSE JsAdd(JsSubtract(MathMax(Columns(pattern)), MathMin(Columns(pattern))), Finite(1))

\* get height
Height(pattern) ==
  IF Len(pattern) = 0 THEN Finite(0)
  ELSE JsAdd(JsSubtract(MathMax(Rows(pattern)), MathMin(Rows(pattern))), Finite(1))

\* get width, earlier revision
EarlierWidth(pattern) ==
  JsAdd(JsSubtract(MathMax(Columns(pattern)), MathMin(Columns(pattern))), Finite(1))

\* get height, earlier revision
EarlierHeight(pattern) ==
  JsAdd(JsSubtract(MathMax(Rows(pattern)), MathMin(Rows(pattern))), Finite(1))

\* row - Math.round((Math.min(...xs) + Math.max(...xs)) / 2)
CenterShift(target, xs) ==
  JsSubtract(Finite(target), MathRoundHalf(JsAdd(MathMin(xs), MathMax(xs))))

\* Pattern.center that computes the column shift from the rows
CenterSwapsAxes(pattern, row, column) ==
  LET rowShift    == CenterShift(row, Rows(pattern))
      columnShift == CenterShift(column, Rows(pattern))
  IN  NewPattern([i \in 1..Len(pattern) |->
                    Cell(pattern[i].row + rowShift.value,
                         pattern[i].column + columnShift.value,
                         pattern[i].alive)])

\* Pattern.center(row, column)
Center(pattern, row, column) ==
  LET rowShift    == CenterShift(row, Rows(pattern))
      columnShift == CenterShift(column, Columns(pattern))
  IN  NewPattern([i \in 1..Len(pattern) |->
                    Cell(pattern[i].row + rowShift.value,
                         pattern[i].column + columnShift.value,
                         pattern[i].alive)])

\* the Rotation enum
CLOCKWISE == "CLOCKWISE"

COUNTERCLOCKWISE == "COUNTERCLOCKWISE"

Rotation == {CLOCKWISE, COUNTERCLOCKWISE}

\* Pattern.rotate that takes the column pivot for the row as well
RotateMixesPivots(pattern, direction, pivotRow, pivotColumn) ==
  LET sign == IF direction = CLOCKWISE THEN 1 ELSE 0 - 1
  IN  NewPattern([i \in 1..Len(pattern) |->
                    Cell(pivotColumn + sign * (pattern[i].column - pivotColumn),
                         pivotColumn - sign * (pattern[i].row - pivotRow),
                         pattern[i].alive)])

\* Pattern.rotate(direction, pivotRow, pivotColumn)
Rotate(pattern, direction, pivotRow, pivotColumn) ==
  LET sign == IF direction = CLOCKWISE THEN 1 ELSE 0 - 1
  IN  NewPattern([i \in 1..Len(pattern) |->
                    Cell(pivotRow + sign * (pattern[i].column - pivotColumn),
                         pivotColumn - sign * (pattern[i].row - pivotRow),
                         pattern[i].alive)])

\* the coordinates of the cells the pattern's iterator yields
PatternCoords(pattern) ==
  {<<pattern[i].row, pattern[i].column>> : i \in 1..Len(pattern)}

(***************************************************************************)
(* The run-length decoder: cellsFromRle(rle) and Pattern.fromPreset, which *)
(* runs the same code on preset.pattern.  A string is the sequence of its  *)
(* characters, and the text given to the decoder is the sequence of its    *)
(* lines (what rle.split(/\r?\n/) returns).                                *)
(***************************************************************************)
\* the separators of split(/([bo$!])/)
TagCharacters == {"b", "o", "$", "!"}

DecimalDigits == <<"0", "1", "2", "3", "4", "5", "6", "7", "8", "9">>

IsDigit(character) == \E i \in 1..10 : DecimalDigits[i] = character

DigitValue(character) == (CHOOSE i \in 1..10 : DecimalDigits[i] = character) - 1

\* line.startsWith(prefix)
StartsWith(line, prefix) ==
  /\ Len(line) >= Len(prefix)
  /\ SubSeq(line, 1, Len(prefix)) = prefix

\* line => line.startsWith("#") || line.startsWith("x = ")
IsHeaderLine(line) ==
  StartsWith(line, <<"#">>) \/ StartsWith(line, <<"x", " ", "=", " ">>)

\* dropWhile(lines, predicate): the lines from the first one that is not a
\* header line
DropWhile(lines) ==
  LET rest == {i \in 1..Len(lines) : ~IsHeaderLine(lines[i])}
  IN  IF rest = {} THEN <<>>
      ELSE SubSeq(lines, CHOOSE i \in rest : \A j \in rest : i <= j, Len(lines))

RECURSIVE Join(_)
\* array.join(""): the strings of the array, one after the other
Join(strings) ==
  IF strings = <<>> THEN <<>> ELSE Head(strings) \o Join(Tail(strings))

RECURSIVE SplitLoop(_, _, _)
\* string.split(/([bo$!])/): the text between two separators (empty when
\* there is none) and every separator, in order
SplitLoop(string, st, i) ==
  IF i > Len(string) THEN Append(st.pieces, st.current)
  ELSE IF string[i] \in TagCharacters
       THEN SplitLoop(string,
                      [pieces |-> st.pieces \o <<st.current, <<string[i]>>>>,
                       current |-> <<>>], i + 1)
       ELSE SplitLoop(string,
                      [st EXCEPT !.current = Append(st.current, string[i])], i + 1)

Split(string) == SplitLoop(string, [pieces |-> <<>>, current |-> <<>>], 1)

NonEmpty(token) == token # <<>>

\* the tokens of the pattern text: header lines dropped, the other lines
\* joined, split at the tags, empty strings filtered out
Tokens(lines) == SelectSeq(Split(Join(DropWhile(lines))), NonEmpty)

\* tokens.indexOf(token): the 0-based index of the first occurrence, or -1
IndexOf(tokens, token) ==
  LET found == {i \in 1..Len(tokens) : tokens[i] = token}
  IN  IF found = {} THEN 0 - 1
      ELSE (CHOOSE i \in found : \A j \in found : i <= j) - 1

\* the outcome of a call: what it returned, or the error it threw
RleReturned(value) ==
  [threw |-> FALSE, error |-> "", message |-> "", value |-> value]

RleThrown(error, message) ==
  [threw |-> TRUE, error |-> error, message |-> message, value |-> <<>>]

\* the tokens before the first "!", and no tokens at all without one
EndOfPatternOptional(tokens) ==
  IF IndexOf(tokens, <<"!">>) # 0 - 1
  THEN RleReturned(SubSeq(tokens, 1, IndexOf(tokens, <<"!">>)))
  ELSE RleReturned(tokens)

\* if (tokens.indexOf("!") !== -1) tokens = tokens.slice(0, ...) else throw
EndOfPattern(tokens) ==
  IF IndexOf(tokens, <<"!">>) # 0 - 1
  THEN RleReturned(SubSeq(tokens, 1, IndexOf(tokens, <<"!">>)))
  ELSE RleThrown("Error", "Missing end-of-pattern tag \"!\"")

\* /[0-9]+/.test(token): the token has a digit somewhere
TestDigits(token) == \E i \in 1..Len(token) : IsDigit(token[i])

RECURSIVE DecimalValue(_)
DecimalValue(digits) ==
  IF digits = <<>> THEN 0
  ELSE 10 * DecimalValue(SubSeq(digits, 1, Len(digits) - 1))
       + DigitValue(digits[Len(digits)])

\* Number.parseInt(token) of a token without blanks or sign: the number its
\* leading digits spell, NaN when it does not start with a digit
ParseInt(token) ==
  LET leading == {n \in 0..Len(token) : \A i \in 1..n : IsDigit(token[i])}
      n == CHOOSE m \in leading : \A k \in leading : k <= m
  IN  IF n = 0 THEN NaN ELSE Finite(DecimalValue(SubSeq(token, 1, n)))

\* string.repeat(count): NaN counts as 0, a negative or infinite count is a
\* RangeError
Repeat(string, count) ==
  IF count.special = "NaN" THEN RleReturned(<<>>)
  ELSE IF ~IsFinite(count) \/ count.value < 0
       THEN RleThrown("RangeError", "Invalid count value")
       ELSE RleReturned([i \in 1..(count.value * Len(string)) |->
                           string[((i - 1) % Len(string)) + 1]])

\* a run count that repeats the tag after it once too often
RunTagsRepeatsAll(tokens, index) ==
  IF TestDigits(tokens[index + 1])
  THEN IF index + 1 >= Len(tokens)
       THEN RleThrown("TypeError", "Cannot read property 'repeat' of undefined")
       ELSE Repeat(tokens[index + 2], ParseInt(tokens[index + 1]))
  ELSE RleReturned(tokens[index + 1])

\* (token, index) => /[0-9]+/.test(token)
\*   ? tokens[index + 1].repeat(Number.parseInt(token) - 1) : token
\* index is 0-based, and tokens[index + 1] is undefined past the last token
RunTags(tokens, index) ==
  IF TestDigits(tokens[index + 1])
  THEN IF index + 1 >= Len(tokens)
       THEN RleThrown("TypeError", "Cannot read property 'repeat' of undefined")
       ELSE Repeat(tokens[index + 2],
                   JsSubtract(ParseInt(tokens[index + 1]), Finite(1)))
  ELSE RleReturned(tokens[index + 1])

\* tokens.map(...).join(""): map stops at the first callback that throws
Tags(tokens) ==
  LET mapped == [i \in 1..Len(tokens) |-> RunTags(tokens, i - 1)]
      thrown == {i \in 1..Len(tokens) : mapped[i].threw}
  IN  IF thrown # {} THEN mapped[CHOOSE i \in thrown : \A j \in thrown : i <= j]
      ELSE RleReturned(Join([i \in 1..Len(tokens) |-> mapped[i].value]))

\* the body of for (const tag of tags): switch (tag)
EvaluateTag(st, tag) ==
  CASE tag = "b" -> [st EXCEPT !.column = st.column + 1]
    [] tag = "o" -> [st EXCEPT !.liveCells =
                                 Append(st.liveCells, Cell(st.row, st.column, TRUE)),
                               !.column = st.column + 1]
    [] tag = "$" -> [st EXCEPT !.row = st.row + 1, !.column = 0]
    [] OTHER -> [st EXCEPT !.threw = TRUE, !.tag = tag]

RECURSIVE EvaluateLoop(_, _, _)
EvaluateLoop(tags, st, i) ==
  IF i > Len(tags) \/ st.threw THEN st
  ELSE EvaluateLoop(tags, EvaluateTag(st, tags[i]), i + 1)

\* const liveCells = []; let row = 0; let column = 0; for (...) {...}
Evaluate(tags) ==
  LET st == EvaluateLoop(tags, [liveCells |-> <<>>, row |-> 0, column |-> 0,
                                threw |-> FALSE, tag |-> ""], 1)
  IN  IF st.threw THEN RleThrown("Error", "Invalid tag")
      ELSE RleReturned(st.liveCells)

\* cellsFromRle(rle): the list of live cells, or the error thrown
CellsFromRle(lines) ==
  LET tokens == EndOfPattern(Tokens(lines))
  IN  IF tokens.threw THEN tokens
      ELSE LET tags == Tags(tokens.value)
           IN  IF tags.threw THEN tags ELSE Evaluate(tags.value)

\* Pattern.fromPreset(preset): the same decoding of preset.pattern, and
\* new Pattern(liveCells) of the cells
FromPreset(lines) ==
  LET cells == CellsFromRle(lines)
  IN  IF cells.threw THEN cells ELSE RleReturned(NewPattern(cells.value))

(***************************************************************************)
(* Drag (drag.js): a drag is the record of its fields, a point the record  *)
(* [x, y].                                                                 *)
(***************************************************************************)
Point(x, y) == [x |-> x, y |-> y]

\* the default value of the constructor's wiggle parameter
DefaultWiggle == 5

\* the outcome of new Drag(x, y, wiggle): the drag, or the RangeError
NewDrag(x, y, wiggle) ==
  IF wiggle < 0
  THEN [threw |-> TRUE, error |-> "RangeError",
        drag |-> [start |-> Point(0, 0), end |-> Point(0, 0),
                  delta |-> Point(0, 0), active |-> FALSE, moved |-> FALSE,
                  wiggle |-> wiggle]]
  ELSE [threw |-> FALSE, error |-> "",
        drag |-> [start |-> Point(x, y), end |-> Point(x, y),
                  delta |-> Point(0, 0), active |-> FALSE, moved |-> FALSE,
                  wiggle |-> wiggle]]

\* distance(x1, y1, x2, y2) squared.  The square root of an integer is at
\* least a non-negative integer w exactly when the integer is at least w * w.
DistanceSquared(x1, y1, x2, y2) ==
  (x2 - x1) * (x2 - x1) + (y2 - y1) * (y2 - y1)

\* Drag.to that reports the offset from where the drag started
ToMeasuresFromStart(self, x, y) ==
  IF self.active
  THEN [start |-> self.start, end |-> Point(x, y),
        delta |-> Point(x - self.start.x, y - self.start.y),
        active |-> TRUE, moved |-> TRUE, wiggle |-> DefaultWiggle]
  ELSE IF DistanceSquared(self.end.x, self.end.y, x, y) >= self.wiggle * self.wiggle
       THEN [start |-> Point(x, y), end |-> Point(x, y), delta |-> Point(0, 0),
             active |-> TRUE, moved |-> FALSE, wiggle |-> DefaultWiggle]
       ELSE self

\* Drag.to(x, y): the drag it returns.  new Drag() leaves _wiggle at its
\* default and the fields the code does not assign at their initial values.
To(self, x, y) ==
  IF self.active
  THEN [start |-> self.start, end |-> Point(x, y),
        delta |-> Point(x - self.end.x, y - self.end.y),
        active |-> TRUE, moved |-> TRUE, wiggle |-> DefaultWiggle]
  ELSE IF DistanceSquared(self.end.x, self.end.y, x, y) >= self.wiggle * self.wiggle
       THEN [start |-> Point(x, y), end |-> Point(x, y), delta |-> Point(0, 0),
             active |-> TRUE, moved |-> FALSE, wiggle |-> DefaultWiggle]
       ELSE self

\* the getters deltaX, deltaY and moved
DeltaX(self) == self.delta.x

DeltaY(self) == self.delta.y

Moved(self) == self.moved

(***************************************************************************)
(* Life: playing and pausing in the three revisions of the component.      *)
(* The window hands out timer ids 1, 2, 3, ... and keeps the set of timers *)
(* that are pending; each revision has its own component and they share    *)
(* the window.  stepped tells whether the handler that ran last called     *)
(* Timeline.next() or Board.step().                                        *)
(***************************************************************************)
NewLife ==
  [react   |-> [isPlaying |-> FALSE, tickId |-> 0, timeouts |-> {}],
   vue     |-> [playing |-> FALSE, tickId |-> 0, timeouts |-> {}],
   classic |-> [ticker |-> 0, intervals |-> {}],
   nextTimer |-> 1,
   stepped |-> FALSE]

\* src/src/life.js: the closure tick of _playPause
\*   if (this.state.isPlaying) { this._timeline.next(); ...
\*     this._tickId = window.setTimeout(tick, ...) }
ReactTick(l) ==
  IF l.react.isPlaying
  THEN [l EXCEPT !.stepped = TRUE,
                 !.react.tickId = l.nextTimer,
                 !.react.timeouts = @ \cup {l.nextTimer},
                 !.nextTimer = @ + 1]
  ELSE [l EXCEPT !.stepped = FALSE]

\* src/src/life.js: _playPause.  setState takes effect when the handler
\* returns, and tick, given to setState as its callback, runs right after.
PlayPause(l) ==
  IF l.react.isPlaying
  THEN [l EXCEPT !.stepped = FALSE,
                 !.react.timeouts = @ \ {l.react.tickId},
                 !.react.isPlaying = FALSE]
  ELSE ReactTick([l EXCEPT !.react.isPlaying = TRUE])

\* src/src/life.js: _handleClick, _next, _previous and _clear end with
\* setState({isPlaying: false, ...}) and leave the timeout alone
StopPlaying(l) == [l EXCEPT !.stepped = FALSE, !.react.isPlaying = FALSE]

\* src/src/Life.vue: the closure tick of the playing setter
\*   this._board.step(); this._grid.draw();
\*   if (this.playing) this._tickId = window.setTimeout(tick, ...)
VueTick(l) ==
  IF l.vue.playing
  THEN [l EXCEPT !.stepped = TRUE,
                 !.vue.tickId = l.nextTimer,
                 !.vue.timeouts = @ \cup {l.nextTimer},
                 !.nextTimer = @ + 1]
  ELSE [l EXCEPT !.stepped = TRUE]

\* the playing setter that pauses without clearing the timeout
SetPlayingKeepsTimeout(l, playing) ==
  IF playing /\ ~l.vue.playing THEN VueTick([l EXCEPT !.vue.playing = TRUE])
  ELSE IF ~playing /\ l.vue.playing
       THEN [l EXCEPT !.stepped = FALSE, !.vue.playing = FALSE]
       ELSE [l EXCEPT !.stepped = FALSE]

\* src/src/Life.vue: set playing(playing)
SetPlaying(l, playing) ==
  IF playing /\ ~l.vue.playing THEN VueTick([l EXCEPT !.vue.playing = TRUE])
  ELSE IF ~playing /\ l.vue.playing
       THEN [l EXCEPT !.stepped = FALSE,
                      !.vue.playing = FALSE,
                      !.vue.timeouts = @ \ {l.vue.tickId}]
       ELSE [l EXCEPT !.stepped = FALSE]

\* src/life.js: play()
Play(l) ==
  IF l.classic.ticker = 0
  THEN [l EXCEPT !.stepped = FALSE,
                 !.classic.ticker = l.nextTimer,
                 !.classic.intervals = @ \cup {l.nextTimer},
                 !.nextTimer = @ + 1]
  ELSE [l EXCEPT !.stepped = FALSE]

\* src/life.js: pause()
Pause(l) ==
  IF l.classic.ticker # 0
  THEN [l EXCEPT !.stepped = FALSE,
                 !.classic.intervals = @ \ {l.classic.ticker},
                 !.classic.ticker = 0]
  ELSE [l EXCEPT !.stepped = FALSE]

\* src/life.js: the playing getter
Playing(l) == l.classic.ticker # 0

\* src/life.js: the callback given to setInterval
IntervalTick(l) == [l EXCEPT !.stepped = TRUE]

(***************************************************************************)
(* DragMotion (dragmotion.js): the mouse tracker of the earlier revisions. *)
(***************************************************************************)
DRAG_THRESHOLD == 5

\* this._last = null
NullPoint == [null |-> TRUE]

\* new DragMotion(x, y)
NewDragMotion(x, y) ==
  [start |-> Point(x, y), last |-> NullPoint, dragging |-> FALSE]

\* Point.distance(point) squared (see DistanceSquared)
PointDistanceSquared(p, q) ==
  (p.x - q.x) * (p.x - q.x) + (p.y - q.y) * (p.y - q.y)

\* Point.equals(point)
PointEquals(p, q) == p.x = q.x /\ p.y = q.y

\* DragMotion.update(x, y): the motion afterwards and the delta returned
Update(m, x, y) ==
  IF ~m.dragging
  THEN [motion |-> IF PointDistanceSquared(m.start, Point(x, y))
                        >= DRAG_THRESHOLD * DRAG_THRESHOLD
                   THEN [start |-> Point(x, y), last |-> Point(x, y),
                         dragging |-> TRUE]
                   ELSE m,
        delta |-> <<0, 0>>]
  ELSE [motion |-> [m EXCEPT !.last = Point(x, y)],
        delta |-> <<x - m.last.x, y - m.last.y>>]

\* get moved: this._dragging && !this._start.equals(this._last)
MotionMoved(m) == m.dragging /\ ~PointEquals(m.start, m.last)

(***************************************************************************)
(* Zooming.  A cell size is a JavaScript number; the model counts it in    *)
(* halves, so that h stands for h / 2 and the integers are the even h.     *)
(***************************************************************************)
CELL_SIZE_MIN == 1

CELL_SIZE_MAX == 100

\* the integer n as a number of halves
Halves(n) == 2 * n

IsInteger(h) == h % 2 = 0

\* Math.max(CELL_SIZE_MIN, Math.min(cellSize, CELL_SIZE_MAX))
ClampCellSize(h) ==
  LET least == IF h < Halves(CELL_SIZE_MAX) THEN h ELSE Halves(CELL_SIZE_MAX)
  IN  IF least > Halves(CELL_SIZE_MIN) THEN least ELSE Halves(CELL_SIZE_MIN)

\* Math.round(x): the nearest integer, a tie going up
MathRound(h) == Halves((h + 1) \div 2)

\* Math.floor(cellSize / 1.1) in IEEE double arithmetic, for a cell size
\* between the clamps: the quotient of these sizes falls just below the
\* integer that exact arithmetic gives
FloorOfQuotient(h) ==
  Halves(((10 * h) \div 22)
         - IF h \in {33, 55, 66, 99, 110, 121, 132, 198} THEN 1 ELSE 0)

\* Math.ceil(cellSize * 1.1) in IEEE double arithmetic, for a cell size
\* between the clamps: the product of these sizes falls just above the
\* integer that exact arithmetic gives
CeilOfProduct(h) ==
  Halves(((11 * h + 19) \div 20)
         + IF h \in {100, 180, 200} THEN 1 ELSE 0)

\* the component of one revision: its cell size and, in the Vue revision,
\* the cell size of its Grid
NewReactZoom == [revision |-> "react", cellSize |-> Halves(10), grid |-> Halves(10)]

NewVueZoom == [revision |-> "vue", cellSize |-> Halves(15), grid |-> Halves(15)]

\* src/src/life.js: _handleSizeChange(event), value is event.target.valueAsNumber
HandleSizeChange(z, value) ==
  [z EXCEPT !.cellSize = ClampCellSize(value), !.grid = ClampCellSize(value)]

\* _handleWheel without the clamp
HandleWheelUnclamped(z, wheelY) ==
  LET cellSize == IF wheelY > 0 THEN FloorOfQuotient(z.cellSize)
                  ELSE CeilOfProduct(z.cellSize)
  IN  [z EXCEPT !.cellSize = cellSize, !.grid = cellSize]

\* src/src/life.js: _handleWheel(row, column, wheelX, wheelY) with no
\* pattern selected
HandleWheel(z, wheelY) ==
  LET cellSize == IF wheelY > 0 THEN FloorOfQuotient(z.cellSize)
                  ELSE CeilOfProduct(z.cellSize)
  IN  [z EXCEPT !.cellSize = ClampCellSize(cellSize),
                !.grid = ClampCellSize(cellSize)]

\* Grid.zoom(cellSize, centerX, centerY): the grid's cell size afterwards
GridZoom(z, cellSize) == [z EXCEPT !.grid = ClampCellSize(cellSize)]

\* src/src/Life.vue: zoom(event) for an input event
ZoomInput(z, value) ==
  [GridZoom(z, ClampCellSize(value)) EXCEPT !.cellSize = ClampCellSize(value)]

\* src/src/Life.vue: zoom(event) for a wheel event
ZoomWheel(z, deltaY) ==
  LET cellSize == ClampCellSize(z.grid - MathRound(deltaY))
  IN  [GridZoom(z, cellSize) EXCEPT !.cellSize = cellSize]

(***************************************************************************)
(* The React Life component's board edits (unnamed/part_014): its state    *)
(* holds the linked-list Timeline.                                         *)
(***************************************************************************)
\* selectedPattern: null
NoSelection == [null |-> TRUE, pattern |-> EmptyPattern]

Selection(pattern) == [null |-> FALSE, pattern |-> pattern]

\* pattern.get(row, column)
PatternGet(pattern, row, column) == Cell(row, column, <<row, column>> \in pattern)

\* pattern.withCells(cells): every given coordinate gets the given aliveness
WithCells(pattern, cells) ==
  (pattern \ {keyFromCell(cells[i]) : i \in 1..Len(cells)})
    \cup {keyFromCell(cells[i]) : i \in {j \in 1..Len(cells) : cells[j].alive}}

\* pattern.merge(other): the live cells of other laid over pattern
Merge(pattern, other) == pattern \cup other

\* the state the component is constructed with
NewApp ==
  [playing |-> FALSE, timeline |-> NewTimeline, selectedPattern |-> NoSelection]

\* _handleClick that sets the clicked cell alive instead of inverting it
HandleClickSetsAlive(a, row, column) ==
  IF ~a.selectedPattern.null
  THEN [a EXCEPT !.selectedPattern = NoSelection,
                 !.timeline = With(a.timeline,
                                   Merge(a.timeline.pattern, a.selectedPattern.pattern))]
  ELSE [a EXCEPT !.playing = FALSE,
                 !.timeline = With(a.timeline,
                                   WithCells(a.timeline.pattern,
                                             <<Cell(row, column, TRUE)>>))]

\* _handleClick(row, column)
HandleClick(a, row, column) ==
  IF ~a.selectedPattern.null
  THEN [a EXCEPT !.selectedPattern = NoSelection,
                 !.timeline = With(a.timeline,
                                   Merge(a.timeline.pattern, a.selectedPattern.pattern))]
  ELSE [a EXCEPT !.playing = FALSE,
                 !.timeline =
                   With(a.timeline,
                        WithCells(a.timeline.pattern,
                                  <<Cell(row, column,
                                         ~PatternGet(a.timeline.pattern, row, column).alive)>>))]

\* _handlePresetChange(preset) for a preset that is not null
HandlePresetChange(a, pattern) == [a EXCEPT !.selectedPattern = Selection(pattern)]

\* the closure tick of _playPause
AppTick(a) ==
  IF a.playing THEN [a EXCEPT !.timeline = TimelineNext(a.timeline)] ELSE a

\* _playPause(event) for an event that toggles playing: setState runs tick
\* once playing is set
AppPlayPause(a) ==
  IF ~a.playing THEN AppTick([a EXCEPT !.playing = TRUE])
  ELSE [a EXCEPT !.playing = FALSE]

\* _next()
AppNext(a) == [a EXCEPT !.playing = FALSE, !.timeline = TimelineNext(a.timeline)]

\* _previous(): previous() throws without an earlier entry and the state
\* stays as it is
AppPrevious(a) ==
  IF Previous(a.timeline).threw THEN a
  ELSE [a EXCEPT !.playing = FALSE, !.timeline = Previous(a.timeline).timeline]

(***************************************************************************)
(* The React Board's canvas (board.js): _drag is null or a Drag.           *)
(***************************************************************************)
\* _drag = null
NullDrag == [null |-> TRUE]

IsNull(reference) == reference = NullDrag

\* the outcome of a handler: the _drag it leaves, whether it called
\* props.onClick, and whether it threw a TypeError reading a property of
\* null
Handled(reference, clicked) == [drag |-> reference, clicked |-> clicked, threw |-> FALSE]

ThrewTypeError(reference) == [drag |-> reference, clicked |-> FALSE, threw |-> TRUE]

\* _handleMouseDown(event)
HandleMouseDown(reference, button, x, y) ==
  IF button = 0 THEN Handled(NewDrag(x, y, DefaultWiggle).drag, FALSE)
  ELSE Handled(reference, FALSE)

\* _handleMouseMove(event): primary is event.buttons & 1
HandleMouseMove(reference, primary, x, y) ==
  IF primary
  THEN IF IsNull(reference) THEN ThrewTypeError(reference)
       ELSE Handled(To(reference, x, y), FALSE)
  ELSE Handled(reference, FALSE)

\* _handleMouseUp(event)
HandleMouseUp(reference, button, x, y) ==
  IF button = 0
  THEN IF IsNull(reference) THEN ThrewTypeError(reference)
       ELSE Handled(NullDrag, ~Moved(reference))
  ELSE Handled(NullDrag, FALSE)

\* _handleWheel(event) and _handleMouseOut(event) leave _drag alone
HandleOther(reference) == Handled(reference, FALSE)

(***************************************************************************)
(* Board specification                                                     *)
(***************************************************************************)
\* lastOp records the call that produced the current state: for a set call,
\* changes says whether the requested aliveness differed from the cell's, and
\* stableBefore counts the cell and its neighbours that were in _stableCells;
\* for an add call, pattern is the cell list added; for a step call, changed
\* counts the active cells whose aliveness changed and activeBefore the
\* entries of _activeCells before the call.
NoOp ==
  [op |-> "new", row |-> 0, column |-> 0, alive |-> FALSE, changes |-> FALSE,
   stableBefore |-> 0, pattern |-> <<>>, changed |-> 0, activeBefore |-> 0]

CellIdle == cellIn = NoCell /\ liveNeighbors = 0 /\ cellOut = NoCell

BoardIdle ==
  /\ activeCells = EmptyMap /\ stableCells = EmptyMap /\ liveCells = EmptyMap
  /\ lastOp = NoOp /\ nOps = 0

\* tlLast records the Timeline call that produced the current state: its
\* argument, whether it threw in each revision, the timelines it was called on
\* and the undone entries before it
NoTimelineOp ==
  [op |-> "new", arg |-> EmptyPattern, threw |-> FALSE, error |-> "",
   arrThrew |-> FALSE,
   from |-> NewTimeline, arrFrom |-> ArrNewTimeline,
   undoneFrom |-> <<>>, arrUndoneFrom |-> <<>>,
   underflowed |-> FALSE]

TimelineIdle ==
  /\ timeline = NewTimeline /\ arrTimeline = ArrNewTimeline
  /\ undone = <<>> /\ arrUndone = <<>>
  /\ tlLast = NoTimelineOp

HeapIdle == listHeap = NewListHeap /\ arrHeap = NewArrHeap

NoSeed == [name |-> "none", left |-> {}, steps |-> 0]

SeedIdle == seed = NoSeed

\* patLast records the Pattern call that produced the current state: its
\* arguments, the pattern it was called on and, for a read of the size, the
\* numbers the getters of both revisions returned
NoPatternOp ==
  [op |-> "new", row |-> 0, column |-> 0, direction |-> "", from |-> <<>>,
   width |-> Finite(0), height |-> Finite(0),
   earlierWidth |-> Finite(0), earlierHeight |-> Finite(0)]

PatternIdle == patCells = <<>> /\ patLast = NoPatternOp

\* before the decoder is called there is no text and nothing was returned
NoRleOutcome ==
  [called |-> FALSE, cells |-> RleReturned(<<>>), pattern |-> RleReturned(<<>>)]

RleIdle == rleIn = <<>> /\ rleOut = NoRleOutcome

\* lifeLast records the event that produced the current state: what
\* happened, in which revision, whether that revision's game was playing
\* when it happened, and which revisions the play/pause control has paused
\* and not set playing again since
NoLifeOp == [op |-> "new", revision |-> "", wasPlaying |-> FALSE, paused |-> {}]

LifeIdle == life = NewLife /\ lifeLast = NoLifeOp

\* dragLast records the call that produced the current state: the point
\* given to to(), the position before the call, where and with which wiggle
\* the drag was created, and how far the gesture has come: "near" while
\* every point so far was closer than the wiggle to the first, "activating"
\* for the first call that was not, "active" after it
NoDragOp ==
  [op |-> "none", threw |-> FALSE, x |-> 0, y |-> 0,
   previous |-> Point(0, 0), origin |-> Point(0, 0), wiggle |-> 0,
   phase |-> "near"]

DragIdle == drag = NewDrag(0, 0, 0).drag /\ dragLast = NoDragOp

\* motionLast records the call that produced the current state: where the
\* DragMotion was created and whether some update so far was at least
\* DRAG_THRESHOLD away from there
NoMotionOp == [op |-> "none", origin |-> Point(0, 0), crossed |-> FALSE]

MotionIdle == motion = NewDragMotion(0, 0) /\ motionLast = NoMotionOp

\* zoomLast records the event that produced the current state and whether
\* every slider value so far was an integer
NoZoomOp == [op |-> "none", integral |-> TRUE]

ZoomIdle == zoom = NewReactZoom /\ zoomLast = NoZoomOp

\* appLast records the handler that produced the current state: for a
\* click, the cell, whether a pattern was selected and the pattern the
\* timeline presented before it
NoAppOp ==
  [op |-> "none", row |-> 0, column |-> 0, selected |-> FALSE,
   before |-> EmptyPattern]

AppIdle == app = NewApp /\ appLast = NoAppOp

\* canvas holds _drag and whether the left mouse button is held down;
\* canvasLast records the event that produced the current state: whether
\* its handler threw, whether it called onClick, and for the press that a
\* left mousedown on the canvas began, where it began and whether some
\* mousemove of it was at least 5 pixels away from there
NewCanvas == [drag |-> NullDrag, leftHeld |-> FALSE]

NoCanvasOp ==
  [op |-> "none", button |-> 0, threw |-> FALSE, clicked |-> FALSE,
   pressed |-> FALSE, down |-> Point(0, 0), far |-> FALSE]

CanvasIdle == canvas = NewCanvas /\ canvasLast = NoCanvasOp

UiIdle == MotionIdle /\ ZoomIdle /\ AppIdle /\ CanvasIdle

Init == BoardIdle /\ CellIdle /\ TimelineIdle /\ HeapIdle /\ SeedIdle /\ PatternIdle
  /\ RleIdle /\ LifeIdle /\ DragIdle /\ UiIdle

DoSet ==
  \E row \in EditRows, column \in EditCols, alive \in BOOLEAN :
    /\ nOps < MaxOps
    /\ LET b == Set(board, row, column, alive) IN
         /\ activeCells' = b.active
         /\ stableCells' = b.stable
    /\ liveCells' = NaiveSet(liveCells, row, column, alive)
    /\ lastOp' = [op |-> "set", row |-> row, column |-> column, alive |-> alive,
                  changes |-> (alive # Get(board, row, column).alive),
                  stableBefore |->
                    Cardinality((NeighborKeys(row, column)
                                   \cup {keyFromCoordinates(row, column)})
                                \cap MapKeys(stableCells))]
    /\ nOps' = nOps + 1
    /\ UNCHANGED <<cellVars, timelineVars, heapVars, seedVars, patternVars,
               rleVars, lifeVars, dragVars, uiVars>>

DoAdd ==
  \E pattern \in AddPatterns :
    /\ nOps < MaxOps
    /\ LET b == Add(board, pattern, Len(pattern)) IN
         /\ activeCells' = b.active
         /\ stableCells' = b.stable
    /\ liveCells' = NaiveAdd(liveCells, pattern, Len(pattern))
    /\ lastOp' = [NoOp EXCEPT !.op = "add", !.pattern = pattern]
    /\ nOps' = nOps + 1
    /\ UNCHANGED <<cellVars, timelineVars, heapVars, seedVars, patternVars,
               rleVars, lifeVars, dragVars, uiVars>>

DoClear ==
  /\ nOps < MaxOps
  /\ activeCells' = Clear(board).active
  /\ stableCells' = Clear(board).stable
  /\ liveCells' = EmptyMap
  /\ lastOp' = [NoOp EXCEPT !.op = "clear"]
  /\ nOps' = nOps + 1
  /\ UNCHANGED <<cellVars, timelineVars, heapVars, seedVars, patternVars,
               rleVars, lifeVars, dragVars, uiVars>>

DoStep ==
  /\ nOps < MaxOps
  /\ LET b == Step(board) IN
       /\ activeCells' = b.active
       /\ stableCells' = b.stable
  /\ liveCells' = NaiveStep(liveCells)
  /\ lastOp' = [NoOp EXCEPT !.op = "step",
                             !.changed = Cardinality(Changing(board)),
                             !.activeBefore = Len(activeCells)]
  /\ nOps' = nOps + 1
  /\ UNCHANGED <<cellVars, timelineVars, heapVars, seedVars, patternVars,
               rleVars, lifeVars, dragVars, uiVars>>

Next == DoSet \/ DoAdd \/ DoClear \/ DoStep

Spec == Init /\ [][Next]_vars

(***************************************************************************)
(* Properties of the Board                                                 *)
(***************************************************************************)
\* C1: after every operation the live coordinates of the incremental Board
\* equal those of the naive Board that received the same edits and steps.
C1_IncrementalEqualsNaive == LiveCoords(board) = NaiveLiveCoords(liveCells)

\* a step was taken on a board that keeps stable cells next to active ones
C1_Witness ==
  /\ lastOp.op = "step"
  /\ stableCells # EmptyMap
  /\ activeCells # EmptyMap
  /\ LiveCoords(board) # {}

\* C3: the key sets of the two maps are disjoint, every stable cell is alive,
\* and every stored cell carries the coordinates of its key.
C3_MapsWellFormed ==
  /\ MapKeys(activeCells) \cap MapKeys(stableCells) = {}
  /\ \A i \in 1..Len(stableCells) : stableCells[i].value.alive
  /\ \A i \in 1..Len(activeCells) :
       activeCells[i].key = keyFromCell(activeCells[i].value)
  /\ \A i \in 1..Len(stableCells) :
       stableCells[i].key = keyFromCell(stableCells[i].value)
  /\ \A i, j \in 1..Len(activeCells) : activeCells[i].key = activeCells[j].key => i = j
  /\ \A i, j \in 1..Len(stableCells) : stableCells[i].key = stableCells[j].key => i = j

\* a stable live cell was set dead: its key had to leave _stableCells
C3_Witness ==
  /\ lastOp.op = "set"
  /\ lastOp.changes
  /\ ~lastOp.alive
  /\ lastOp.stableBefore > 0
  /\ Len(activeCells) >= 9

\* C4: a set call that asks for the aliveness the cell already has leaves both
\* maps exactly as they were, hence also the live cells and the next step.
C4_NoOpSetChangesNothing ==
  [][(lastOp'.op = "set"
        /\ Get(board, lastOp'.row, lastOp'.column).alive = lastOp'.alive)
     => /\ activeCells' = activeCells
        /\ stableCells' = stableCells
        /\ LiveCells(Board(activeCells', stableCells')) = LiveCells(board)
        /\ Step(Board(activeCells', stableCells')) = Step(board)]_vars

\* a no-op set of a live cell kept in _stableCells
C4_Witness ==
  /\ lastOp.op = "set"
  /\ ~lastOp.changes
  /\ lastOp.alive
  /\ MapHas(stableCells, keyFromCoordinates(lastOp.row, lastOp.column))

\* C5: after a set call that changes a cell, the cell and its 8 neighbours are
\* keys of _activeCells and not of _stableCells, the cell is stored with its
\* new aliveness and each neighbour with the aliveness it had before the call.
C5_SetActivatesNeighborhood ==
  [][(lastOp'.op = "set"
        /\ Get(board, lastOp'.row, lastOp'.column).alive # lastOp'.alive)
     => LET key == keyFromCoordinates(lastOp'.row, lastOp'.column) IN
        /\ MapHas(activeCells', key)
        /\ ~MapHas(stableCells', key)
        /\ MapGet(activeCells', key) = Cell(lastOp'.row, lastOp'.column, lastOp'.alive)
        /\ \A nk \in NeighborKeys(lastOp'.row, lastOp'.column) :
             /\ MapHas(activeCells', nk)
             /\ ~MapHas(stableCells', nk)
             /\ MapGet(activeCells', nk) = Cell(nk[1], nk[2], Get(board, nk[1], nk[2]).alive)
             /\ (~MapHas(activeCells, nk) /\ ~MapHas(stableCells, nk)
                   => ~MapGet(activeCells', nk).alive)]_vars

\* a changing set call whose neighbourhood held stable cells
C5_Witness ==
  /\ lastOp.op = "set"
  /\ lastOp.changes
  /\ lastOp.stableBefore > 1

(***************************************************************************)
(* Cell.next as a specification: the inputs are drawn in Init              *)
(***************************************************************************)
CellCoords == (0 - MaxCellCoord)..MaxCellCoord

CellInit ==
  /\ BoardIdle
  /\ TimelineIdle
  /\ HeapIdle /\ SeedIdle /\ PatternIdle
  /\ RleIdle /\ LifeIdle /\ DragIdle /\ UiIdle
  /\ cellIn \in {Cell(r, c, a) : r \in CellCoords, c \in CellCoords, a \in BOOLEAN}
  /\ liveNeighbors \in 0..8
  /\ cellOut = NoCell

CallCellNext ==
  /\ cellOut = NoCell
  /\ cellOut' = CellNext(cellIn, liveNeighbors)
  /\ UNCHANGED <<cellIn, liveNeighbors>>
  /\ UNCHANGED <<boardVars, timelineVars, heapVars, seedVars, patternVars,
               rleVars, lifeVars, dragVars, uiVars>>

CellSpecNext == CallCellNext

CellSpec == CellInit /\ [][CellSpecNext]_vars

\* C2: Cell.next(n) keeps the row and column, and the result is alive exactly
\* when the cell is alive with 2 or 3 live neighbours or dead with exactly 3.
C2_CellNextRule ==
  cellOut # NoCell =>
    /\ cellOut.row = cellIn.row
    /\ cellOut.column = cellIn.column
    /\ cellOut.alive <=> \/ cellIn.alive /\ liveNeighbors \in {2, 3}
                         \/ ~cellIn.alive /\ liveNeighbors = 3

\* a dead cell away from the origin was born from exactly 3 live neighbours
C2_Witness ==
  /\ cellOut # NoCell
  /\ ~cellIn.alive /\ liveNeighbors = 3 /\ cellOut.alive
  /\ cellIn.row # 0 /\ cellIn.column # 0

(***************************************************************************)
(* Timeline specification: the caller holds one timeline of each revision  *)
(* and replaces it by the result of every call.                            *)
(***************************************************************************)
TimelineInit ==
  BoardIdle /\ CellIdle /\ TimelineIdle /\ HeapIdle /\ SeedIdle /\ PatternIdle
  /\ RleIdle /\ LifeIdle /\ DragIdle /\ UiIdle

TimelineCall(op, arg, threw, error) ==
  [op |-> op, arg |-> arg, threw |-> threw, error |-> error,
   arrThrew |-> FALSE,
   from |-> timeline, arrFrom |-> arrTimeline,
   undoneFrom |-> undone, arrUndoneFrom |-> arrUndone,
   underflowed |-> tlLast.underflowed \/ (op = "previous" /\ ~HasPrevious(timeline))]

CanGrow == Len(timeline.past) < MaxPast /\ Len(arrTimeline.patterns) <= MaxPast

DoWith ==
  \E pattern \in TimelinePatterns :
    /\ CanGrow
    /\ timeline' = With(timeline, pattern)
    /\ arrTimeline' = ArrWith(arrTimeline, pattern)
    /\ undone' = <<>>
    /\ arrUndone' = <<>>
    /\ tlLast' = TimelineCall("with", pattern, FALSE, "")
    /\ UNCHANGED <<boardVars, cellVars, heapVars, seedVars, patternVars,
               rleVars, lifeVars, dragVars, uiVars>>

DoNext ==
  /\ CanGrow
  /\ timeline' = TimelineNext(timeline)
  /\ arrTimeline' = ArrNext(arrTimeline)
  /\ undone' = IF undone = <<>> THEN undone ELSE Tail(undone)
  /\ arrUndone' = IF arrUndone = <<>> THEN arrUndone ELSE Tail(arrUndone)
  /\ tlLast' = TimelineCall("next", EmptyPattern, FALSE, "")
  /\ UNCHANGED <<boardVars, cellVars, heapVars, seedVars, patternVars,
               rleVars, lifeVars, dragVars, uiVars>>

DoPrevious ==
  /\ arrTimeline.index > 0 - MaxUnderflow
  /\ LET r  == Previous(timeline)
         ra == ArrPrevious(arrTimeline)
     IN  /\ timeline' = IF r.threw THEN timeline ELSE r.timeline
         /\ undone' = IF r.threw THEN undone
                      ELSE <<Entry(timeline.generation, timeline.pattern)>> \o undone
         /\ arrTimeline' = IF ra.threw THEN arrTimeline ELSE ra.timeline
         /\ arrUndone' = IF ra.threw THEN arrUndone
                         ELSE <<ArrEntry(arrTimeline)>> \o arrUndone
         /\ tlLast' = [TimelineCall("previous", EmptyPattern, r.threw, r.error)
                          EXCEPT !.arrThrew = ra.threw]
  /\ UNCHANGED <<boardVars, cellVars, heapVars, seedVars, patternVars,
               rleVars, lifeVars, dragVars, uiVars>>

TimelineNextAction == DoWith \/ DoNext \/ DoPrevious

TimelineSpec == TimelineInit /\ [][TimelineNextAction]_vars

\* the entries of a Node list as array entries
Entries(nodes) == [i \in 1..Len(nodes) |-> Entry(nodes[i].generation, nodes[i].pattern)]

\* C6: t.with(p) has present p at generation 0, no recorded future (a next()
\* on it steps p itself), and previous() leads back to t's present pattern
\* and generation.
C6_WithForksFromPresent ==
  tlLast.op = "with" =>
    /\ timeline.pattern = tlLast.arg
    /\ timeline.generation = 0
    /\ timeline.future = Null
    /\ TimelineNext(timeline).pattern =
         (IF PatternEmpty(tlLast.arg) THEN tlLast.arg ELSE PatternNext(tlLast.arg))
    /\ TimelineNext(timeline).generation = (IF PatternEmpty(tlLast.arg) THEN 0 ELSE 1)
    /\ HasPrevious(timeline)
    /\ ~Previous(timeline).threw
    /\ Previous(timeline).timeline.pattern = tlLast.from.pattern
    /\ Previous(timeline).timeline.generation = tlLast.from.generation
    /\ ArrHasPresent(tlLast.arrFrom) =>
         /\ ArrEntry(arrTimeline) = Entry(0, tlLast.arg)
         /\ ArrPatternsAfter(arrTimeline) = 0
         /\ ArrPatternsBefore(arrTimeline) > 0
         /\ ArrEntry(ArrPrevious(arrTimeline).timeline) = ArrEntry(tlLast.arrFrom)

\* with() was called on a timeline that had a recorded future and a past
C6_Witness ==
  /\ tlLast.op = "with"
  /\ tlLast.from.future # Null
  /\ tlLast.from.past # Null
  /\ tlLast.from.generation > 0
  /\ ~PatternEmpty(tlLast.arg)

\* C7: next() on a timeline with a recorded future makes the most recently
\* undone entry the present, with the pattern and generation it was undone
\* with, and leaves the other undone entries, in order, as the future.
C7_NextRedoesUndoneEntry ==
  /\ (tlLast.op = "next" /\ tlLast.from.future # Null) =>
       /\ tlLast.undoneFrom # <<>>
       /\ Entry(timeline.generation, timeline.pattern) = Head(tlLast.undoneFrom)
       /\ Entries(timeline.future) = Tail(tlLast.undoneFrom)
       /\ undone = Entries(timeline.future)
  /\ (tlLast.op = "next" /\ ArrPatternsAfter(tlLast.arrFrom) > 0) =>
       /\ tlLast.arrUndoneFrom # <<>>
       /\ ArrEntry(arrTimeline) = Head(tlLast.arrUndoneFrom)
       /\ ArrFuture(arrTimeline) = Tail(tlLast.arrUndoneFrom)

\* the redone entry is not what stepping the present would have given, and
\* another undone entry is still waiting
C7_Witness ==
  /\ tlLast.op = "next"
  /\ Len(tlLast.from.future) >= 2
  /\ timeline.pattern # PatternNext(tlLast.from.pattern)
  /\ timeline.generation # tlLast.from.generation + 1

\* C8: next() on a timeline with no recorded future and a non-empty present
\* has the stepped pattern as present, the generation plus one, and the old
\* present with its generation as the immediately previous entry.
C8_NextStepsPresent ==
  /\ (tlLast.op = "next" /\ tlLast.from.future = Null
        /\ ~PatternEmpty(tlLast.from.pattern)) =>
       /\ timeline.pattern = PatternNext(tlLast.from.pattern)
       /\ timeline.generation = tlLast.from.generation + 1
       /\ HasPrevious(timeline)
       /\ Head(timeline.past) =
            [pattern |-> tlLast.from.pattern, generation |-> tlLast.from.generation]
       /\ Tail(timeline.past) = tlLast.from.past
  /\ (tlLast.op = "next" /\ ArrPatternsAfter(tlLast.arrFrom) = 0
        /\ ~PatternEmpty(ArrPattern(tlLast.arrFrom))) =>
       /\ ArrPattern(arrTimeline) = PatternNext(ArrPattern(tlLast.arrFrom))
       /\ ArrGeneration(arrTimeline) = ArrGeneration(tlLast.arrFrom) + 1
       /\ ArrayAt(arrTimeline.patterns, arrTimeline.index - 1) = ArrEntry(tlLast.arrFrom)

\* a second simulated generation was computed from a pattern that changes
C8_Witness ==
  /\ tlLast.op = "next"
  /\ tlLast.from.future = Null
  /\ tlLast.from.generation > 0
  /\ timeline.pattern # tlLast.from.pattern
  /\ ~PatternEmpty(timeline.pattern)

\* C9: next() on a timeline with no recorded future and an empty present
\* returns the timeline unchanged: same pattern, generation and history.
C9_NextOnEmptyIsNoOp ==
  /\ (tlLast.op = "next" /\ tlLast.from.future = Null
        /\ PatternEmpty(tlLast.from.pattern)) =>
       /\ timeline = tlLast.from
       /\ HasPrevious(timeline) = HasPrevious(tlLast.from)
  /\ (tlLast.op = "next" /\ ArrPatternsAfter(tlLast.arrFrom) = 0
        /\ PatternEmpty(ArrPattern(tlLast.arrFrom))) =>
       arrTimeline = tlLast.arrFrom

\* next() was called on an empty present that was itself reached by stepping
C9_Witness ==
  /\ tlLast.op = "next"
  /\ tlLast.from.future = Null
  /\ PatternEmpty(tlLast.from.pattern)
  /\ tlLast.from.generation > 0
  /\ HasPrevious(timeline)

\* C10: a new linked-list timeline has no previous entry; previous() throws
\* Error("No previous pattern") exactly when hasPrevious() is false, and then
\* the timeline is unchanged.
C10_PreviousThrowsIffNoPrevious ==
  /\ tlLast.op = "new" => ~HasPrevious(timeline)
  /\ tlLast.op = "previous" =>
       /\ ~HasPrevious(tlLast.from) =>
            /\ tlLast.threw
            /\ tlLast.error = "No previous pattern"
            /\ timeline = tlLast.from
       /\ HasPrevious(tlLast.from) =>
            /\ ~tlLast.threw
            /\ timeline # tlLast.from

\* previous() threw on a timeline that had been stepped back to its start
C10_Witness ==
  /\ tlLast.op = "previous"
  /\ tlLast.threw
  /\ timeline.future # Null

\* C11: previous() moves to the immediately previous entry with its pattern
\* and generation, a next() after it comes back to the same present,
\* generation and hasPrevious(), and a previous() after a next() that was not
\* a no-op comes back to the same present and generation.
C11_PreviousAndNextAreInverse ==
  /\ (tlLast.op = "previous" /\ HasPrevious(tlLast.from)) =>
       /\ timeline.pattern = Head(tlLast.from.past).pattern
       /\ timeline.generation = Head(tlLast.from.past).generation
       /\ TimelineNext(timeline).pattern = tlLast.from.pattern
       /\ TimelineNext(timeline).generation = tlLast.from.generation
       /\ HasPrevious(TimelineNext(timeline)) = HasPrevious(tlLast.from)
  /\ (tlLast.op = "next"
        /\ ~(tlLast.from.future = Null /\ PatternEmpty(tlLast.from.pattern))) =>
       /\ ~Previous(timeline).threw
       /\ Previous(timeline).timeline.pattern = tlLast.from.pattern
       /\ Previous(timeline).timeline.generation = tlLast.from.generation

\* previous() left an edited pattern whose predecessor was a simulated one:
\* stepping the predecessor again would not give the edited pattern back
C11_Witness ==
  /\ tlLast.op = "previous"
  /\ ~tlLast.threw
  /\ tlLast.from.generation = 0
  /\ timeline.generation > 0
  /\ ~PatternEmpty(timeline.pattern)
  /\ PatternNext(timeline.pattern) # tlLast.from.pattern

\* C12 as stated: after with(newPattern) on a timeline with a previous entry
\* and a recorded future, hasPrevious() is true and next() yields
\* newPattern.next() at generation 1.
C12_WithThenNextAtGenerationOne ==
  (tlLast.op = "with" /\ HasPrevious(tlLast.from) /\ tlLast.from.future # Null) =>
    /\ HasPrevious(timeline)
    /\ TimelineNext(timeline).pattern = PatternNext(tlLast.arg)
    /\ TimelineNext(timeline).generation = 1

\* C12 (amended): after with(newPattern) on a timeline with a previous entry
\* and a recorded future, hasPrevious() is true; next() yields
\* newPattern.next() at generation 1 with no future left when newPattern is
\* not empty, and returns the timeline itself, at generation 0, when it is.
C12_WithThenNextStepsNewPattern ==
  (tlLast.op = "with" /\ HasPrevious(tlLast.from) /\ tlLast.from.future # Null) =>
    /\ HasPrevious(timeline)
    /\ ~PatternEmpty(tlLast.arg) =>
         /\ TimelineNext(timeline).pattern = PatternNext(tlLast.arg)
         /\ TimelineNext(timeline).generation = 1
         /\ TimelineNext(timeline).future = Null
    /\ PatternEmpty(tlLast.arg) =>
         /\ TimelineNext(timeline) = timeline
         /\ TimelineNext(timeline).generation = 0

\* with() replaced a future whose first entry differs from the step of the new
\* pattern, on a timeline that was past generation 0
C12_Witness ==
  /\ tlLast.op = "with"
  /\ HasPrevious(tlLast.from)
  /\ tlLast.from.future # Null
  /\ tlLast.from.generation > 0
  /\ ~PatternEmpty(tlLast.arg)
  /\ Head(tlLast.from.future).pattern # PatternNext(tlLast.arg)
  /\ Head(tlLast.from.future).generation # 1

\* C13: in the array-backed Timeline, previous() called with no pattern before
\* the current one throws Error("No previous pattern").
C13_ArrayPreviousThrows ==
  (tlLast.op = "previous" /\ ArrPatternsBefore(tlLast.arrFrom) = 0) =>
    /\ tlLast.arrThrew
    /\ arrTimeline = tlLast.arrFrom

\* the history of a linked-list timeline, oldest entry first
Reverse(s) == [i \in 1..Len(s) |-> s[Len(s) + 1 - i]]

History(t) ==
  Reverse(Entries(t.past)) \o <<Entry(t.generation, t.pattern)>> \o Entries(t.future)

\* C15: generations are non-negative; the initial entry and every entry made
\* by with() have generation 0, and an entry with generation g > 0 directly
\* follows an entry with generation g - 1 whose pattern steps to its pattern.
C15_GenerationCountsSteps ==
  LET history == History(timeline)
  IN  /\ tlLast.op \in {"new", "with"} => timeline.generation = 0
      /\ history[1] = Entry(0, EmptyPattern)
      /\ \A i \in 1..Len(history) :
           /\ history[i].generation \in Nat
           /\ history[i].generation > 0 =>
                /\ i > 1
                /\ history[i - 1].generation = history[i].generation - 1
                /\ PatternNext(history[i - 1].pattern) = history[i].pattern

\* a history with a simulated entry between two entries made by with(), the
\* later one undone
C15_Witness ==
  /\ Len(timeline.past) >= 2
  /\ timeline.future # Null
  /\ timeline.generation > 0
  /\ Head(timeline.past).generation = 0
  /\ Head(timeline.future).generation = 0
  /\ ~PatternEmpty(Head(timeline.future).pattern)

\* C36: as long as previous() was only called with an earlier entry to go
\* back to, the array-backed Timeline reports the same present pattern and
\* the same generation as the linked-list Timeline after every call
C36_TimelinesAgree ==
  ~tlLast.underflowed =>
    /\ ArrHasPresent(arrTimeline)
    /\ ArrPattern(arrTimeline) = timeline.pattern
    /\ ArrGeneration(arrTimeline) = timeline.generation

\* both timelines went back from a generation that next() had computed
\* after a with(), and no previous() call was ever out of range
C36_Witness ==
  /\ ~tlLast.underflowed
  /\ tlLast.op = "previous"
  /\ tlLast.from.generation > 0
  /\ Len(timeline.past) > 0
  /\ ~PatternEmpty(timeline.pattern)

(***************************************************************************)
(* Heap specification: the caller keeps every timeline it was ever given   *)
(* and calls with, next and previous on any of them.                       *)
(***************************************************************************)
HeapInit ==
  BoardIdle /\ CellIdle /\ TimelineIdle /\ HeapIdle /\ SeedIdle /\ PatternIdle
  /\ RleIdle /\ LifeIdle /\ DragIdle /\ UiIdle

HeapCanGrow == Len(listHeap.timelines) + Len(arrHeap.timelines) < MaxTimelines + 2

DoHeapWith ==
  \E t \in 1..Len(listHeap.timelines), pattern \in TimelinePatterns :
    /\ HeapCanGrow
    /\ listHeap' = HeapWith(listHeap, t, pattern)
    /\ UNCHANGED <<arrHeap, boardVars, cellVars, timelineVars, seedVars, patternVars,
               rleVars, lifeVars, dragVars, uiVars>>

DoHeapNext ==
  \E t \in 1..Len(listHeap.timelines) :
    /\ HeapCanGrow
    /\ listHeap' = HeapNext(listHeap, t)
    /\ UNCHANGED <<arrHeap, boardVars, cellVars, timelineVars, seedVars, patternVars,
               rleVars, lifeVars, dragVars, uiVars>>

DoHeapPrevious ==
  \E t \in 1..Len(listHeap.timelines) :
    /\ HeapCanGrow
    /\ listHeap' = HeapPrevious(listHeap, t)
    /\ UNCHANGED <<arrHeap, boardVars, cellVars, timelineVars, seedVars, patternVars,
               rleVars, lifeVars, dragVars, uiVars>>

DoArrHeapWith ==
  \E t \in 1..Len(arrHeap.timelines), pattern \in TimelinePatterns :
    /\ HeapCanGrow
    /\ arrHeap' = ArrHeapWith(arrHeap, t, pattern)
    /\ UNCHANGED <<listHeap, boardVars, cellVars, timelineVars, seedVars, patternVars,
               rleVars, lifeVars, dragVars, uiVars>>

DoArrHeapNext ==
  \E t \in 1..Len(arrHeap.timelines) :
    /\ HeapCanGrow
    /\ arrHeap' = ArrHeapNext(arrHeap, t)
    /\ UNCHANGED <<listHeap, boardVars, cellVars, timelineVars, seedVars, patternVars,
               rleVars, lifeVars, dragVars, uiVars>>

DoArrHeapPrevious ==
  \E t \in 1..Len(arrHeap.timelines) :
    /\ HeapCanGrow
    /\ arrHeap' = ArrHeapPrevious(arrHeap, t)
    /\ UNCHANGED <<listHeap, boardVars, cellVars, timelineVars, seedVars, patternVars,
               rleVars, lifeVars, dragVars, uiVars>>

HeapNextAction ==
  \/ DoHeapWith \/ DoHeapNext \/ DoHeapPrevious
  \/ DoArrHeapWith \/ DoArrHeapNext \/ DoArrHeapPrevious

HeapSpec == HeapInit /\ [][HeapNextAction]_vars

\* C14: no call of with, next or previous, on any timeline, changes what an
\* existing timeline shows: its pattern, generation, hasPrevious() (or
\* patternsBefore / patternsAfter) and the results of next() and previous().
C14_TimelinesAreImmutable ==
  [][/\ \A t \in 1..Len(listHeap.timelines) : ListView(listHeap', t) = ListView(listHeap, t)
     /\ \A t \in 1..Len(arrHeap.timelines) : ArrView(arrHeap', t) = ArrView(arrHeap, t)]_vars

\* three timelines derived from one another share one _patterns array, at
\* different indexes
C14_Witness ==
  /\ \E i, j, k \in 1..Len(arrHeap.timelines) :
       /\ i < j /\ j < k
       /\ arrHeap.timelines[i].patterns = arrHeap.timelines[j].patterns
       /\ arrHeap.timelines[j].patterns = arrHeap.timelines[k].patterns
       /\ arrHeap.timelines[i].index # arrHeap.timelines[j].index
       /\ Len(arrHeap.arrays[arrHeap.timelines[i].patterns]) > 1

(***************************************************************************)
(* Seeded boards: the cells of a known pattern are set alive on a new      *)
(* Board, in any order, and the board is then stepped.                     *)
(***************************************************************************)
BlinkerSeed == {<<10, 10>>, <<11, 10>>, <<12, 10>>}

GliderSeed == {<<0, 1>>, <<1, 2>>, <<2, 0>>, <<2, 1>>, <<2, 2>>}

Seeds == [blinker |-> BlinkerSeed, glider |-> GliderSeed]

Translated(cells, rowShift, columnShift) ==
  {<<k[1] + rowShift, k[2] + columnShift>> : k \in cells}

SeedInit ==
  /\ BoardIdle /\ CellIdle /\ TimelineIdle /\ HeapIdle /\ PatternIdle
  /\ RleIdle /\ LifeIdle /\ DragIdle /\ UiIdle
  /\ seed \in {[name |-> n, left |-> Seeds[n], steps |-> 0] : n \in DOMAIN Seeds}

SeedSet ==
  \E k \in seed.left :
    /\ LET b == Set(board, k[1], k[2], TRUE) IN
         /\ activeCells' = b.active
         /\ stableCells' = b.stable
    /\ seed' = [seed EXCEPT !.left = @ \ {k}]
    /\ UNCHANGED <<liveCells, lastOp, nOps>>
    /\ UNCHANGED <<cellVars, timelineVars, heapVars, patternVars,
               rleVars, lifeVars, dragVars, uiVars>>

SeedStep ==
  /\ seed.name \in DOMAIN Seeds
  /\ seed.left = {}
  /\ seed.steps < MaxSeedSteps
  /\ LET b == Step(board) IN
       /\ activeCells' = b.active
       /\ stableCells' = b.stable
  /\ seed' = [seed EXCEPT !.steps = @ + 1]
  /\ UNCHANGED <<liveCells, lastOp, nOps>>
  /\ UNCHANGED <<cellVars, timelineVars, heapVars, patternVars,
               rleVars, lifeVars, dragVars, uiVars>>

SeedNext == SeedSet \/ SeedStep

SeedSpec == SeedInit /\ [][SeedNext]_vars

\* C16: the vertical blinker at (10,10), (11,10), (12,10) becomes the
\* horizontal one at (11,9), (11,10), (11,11) after one step and is back after
\* the second (and so on, with period 2).
C16_BlinkerOscillates ==
  (seed.name = "blinker" /\ seed.left = {}) =>
    /\ seed.steps % 2 = 0 => LiveCoords(board) = {<<10, 10>>, <<11, 10>>, <<12, 10>>}
    /\ seed.steps % 2 = 1 => LiveCoords(board) = {<<11, 9>>, <<11, 10>>, <<11, 11>>}

\* the blinker was stepped twice
C16_Witness ==
  /\ seed.name = "blinker"
  /\ seed.left = {}
  /\ seed.steps = 2
  /\ LiveCoords(board) = BlinkerSeed

\* C17: four steps move the glider by one row and one column.
C17_GliderTranslates ==
  (seed.name = "glider" /\ seed.left = {} /\ seed.steps = 4) =>
    LiveCoords(board) = Translated(GliderSeed, 1, 1)

\* the glider was stepped four times and is not where it started
C17_Witness ==
  /\ seed.name = "glider"
  /\ seed.left = {}
  /\ seed.steps = 4
  /\ Cardinality(LiveCoords(board)) = 5
  /\ LiveCoords(board) # GliderSeed

(***************************************************************************)
(* Pattern specification: the caller builds a pattern from a list of       *)
(* cells, reads its size and replaces it by centered copies.               *)
(***************************************************************************)
PatCoords == (0 - MaxPatCoord)..MaxPatCoord

CenterCoords == 0..MaxCenter

PatternCells == {Cell(r, c, a) : r \in PatCoords, c \in PatCoords, a \in BOOLEAN}

CellLists == UNION {[1..n -> PatternCells] : n \in 0..MaxPatternCells}

PatternInit ==
  /\ BoardIdle /\ CellIdle /\ TimelineIdle /\ HeapIdle /\ SeedIdle
  /\ RleIdle /\ LifeIdle /\ DragIdle /\ UiIdle
  /\ patCells \in {NewPattern(cells) : cells \in CellLists}
  /\ patLast = NoPatternOp

DoSize ==
  /\ patLast' = [NoPatternOp EXCEPT !.op = "size", !.from = patCells,
                                    !.width = Width(patCells),
                                    !.height = Height(patCells),
                                    !.earlierWidth = EarlierWidth(patCells),
                                    !.earlierHeight = EarlierHeight(patCells)]
  /\ UNCHANGED patCells
  /\ UNCHANGED <<boardVars, cellVars, timelineVars, heapVars, seedVars,
               rleVars, lifeVars, dragVars, uiVars>>

DoCenter ==
  \E row \in CenterCoords, column \in CenterCoords :
    /\ patCells' = Center(patCells, row, column)
    /\ patLast' = [NoPatternOp EXCEPT !.op = "center", !.row = row, !.column = column,
                                      !.from = patCells]
    /\ UNCHANGED <<boardVars, cellVars, timelineVars, heapVars, seedVars,
               rleVars, lifeVars, dragVars, uiVars>>

\* the rotated copy stays within the coordinates the model follows
WithinExtent(pattern) ==
  \A i \in 1..Len(pattern) :
    /\ pattern[i].row \in (0 - MaxPatExtent)..MaxPatExtent
    /\ pattern[i].column \in (0 - MaxPatExtent)..MaxPatExtent

DoRotate ==
  \E direction \in Rotation, pivotRow \in CenterCoords, pivotColumn \in CenterCoords :
    /\ WithinExtent(Rotate(patCells, direction, pivotRow, pivotColumn))
    /\ patCells' = Rotate(patCells, direction, pivotRow, pivotColumn)
    /\ patLast' = [NoPatternOp EXCEPT !.op = "rotate", !.row = pivotRow,
                                      !.column = pivotColumn, !.direction = direction,
                                      !.from = patCells]
    /\ UNCHANGED <<boardVars, cellVars, timelineVars, heapVars, seedVars,
               rleVars, lifeVars, dragVars, uiVars>>

PatternNextAction == DoSize \/ DoCenter \/ DoRotate

PatternSpec == PatternInit /\ [][PatternNextAction]_vars

\* the least and the greatest element of a non-empty set of integers
Least(S) == CHOOSE m \in S : \A x \in S : m <= x

Greatest(S) == CHOOSE m \in S : \A x \in S : x <= m

RowsOf(coords) == {k[1] : k \in coords}

ColumnsOf(coords) == {k[2] : k \in coords}

\* C18: in both revisions, width is max column - min column + 1 and height is
\* max row - min row + 1 over the live cells, and both are 0 for a pattern
\* without live cells.
C18_WidthAndHeight ==
  patLast.op = "size" =>
    LET width  == IF patCells = <<>> THEN 0
                  ELSE Greatest(ColumnsOf(PatternCoords(patCells)))
                         - Least(ColumnsOf(PatternCoords(patCells))) + 1
        height == IF patCells = <<>> THEN 0
                  ELSE Greatest(RowsOf(PatternCoords(patCells)))
                         - Least(RowsOf(PatternCoords(patCells))) + 1
    IN  /\ patLast.width = Finite(width)
        /\ patLast.height = Finite(height)
        /\ patLast.earlierWidth = Finite(width)
        /\ patLast.earlierHeight = Finite(height)

\* C19: center(row, column) on a pattern with a live cell translates every
\* cell by the same shift, keeps the number of cells, and leaves the rounded
\* (half up) midpoint of the bounding box at (row, column).
C19_CenterTranslatesToMidpoint ==
  (patLast.op = "center" /\ patLast.from # <<>>) =>
    LET rowShift    == patCells[1].row - patLast.from[1].row
        columnShift == patCells[1].column - patLast.from[1].column
        rowSum      == Least(RowsOf(PatternCoords(patCells)))
                         + Greatest(RowsOf(PatternCoords(patCells)))
        columnSum   == Least(ColumnsOf(PatternCoords(patCells)))
                         + Greatest(ColumnsOf(PatternCoords(patCells)))
    IN  /\ Len(patCells) = Len(patLast.from)
        /\ \A i \in 1..Len(patCells) :
             patCells[i] = Cell(patLast.from[i].row + rowShift,
                                patLast.from[i].column + columnShift, TRUE)
        /\ 2 * patLast.row - 1 <= rowSum /\ rowSum < 2 * patLast.row + 1
        /\ 2 * patLast.column - 1 <= columnSum /\ columnSum < 2 * patLast.column + 1

\* a pattern whose row midpoint is a negative half was moved
C19_Witness ==
  /\ patLast.op = "center"
  /\ Len(patLast.from) >= 2
  /\ patCells # patLast.from
  /\ Least(RowsOf(PatternCoords(patLast.from)))
       + Greatest(RowsOf(PatternCoords(patLast.from))) = 0 - 1
  /\ (Least(ColumnsOf(PatternCoords(patLast.from)))
       + Greatest(ColumnsOf(PatternCoords(patLast.from)))) % 2 = 1

\* C20: centering a centered pattern at the same place again gives the same
\* live cells.
C20_CenterIsIdempotent ==
  patLast.op = "center" =>
    PatternCoords(Center(patCells, patLast.row, patLast.column)) = PatternCoords(patCells)

\* the first centering moved a pattern with half-integer midpoints
C20_Witness ==
  /\ patLast.op = "center"
  /\ patLast.row # patLast.column
  /\ PatternCoords(patCells) # PatternCoords(patLast.from)
  /\ Cardinality(PatternCoords(patCells)) >= 2
  /\ (Least(RowsOf(PatternCoords(patCells)))
       + Greatest(RowsOf(PatternCoords(patCells)))) % 2 = 1

\* C21: one rotation maps (r, c) to (pr + (c - pc), pc - (r - pr)), with the
\* sign negated when counterclockwise, and four clockwise rotations about the
\* same pivot give the live cells of the original pattern.
C21_RotateFourTimesIsIdentity ==
  (patLast.op = "rotate" /\ patLast.from # <<>>) =>
    LET pr == patLast.row
        pc == patLast.column
    IN  /\ patLast.direction = CLOCKWISE =>
             /\ PatternCoords(patCells) =
                  {<<pr + (k[2] - pc), pc - (k[1] - pr)>> : k \in PatternCoords(patLast.from)}
             /\ PatternCoords(Rotate(Rotate(Rotate(patCells, CLOCKWISE, pr, pc),
                                            CLOCKWISE, pr, pc), CLOCKWISE, pr, pc))
                  = PatternCoords(patLast.from)
        /\ patLast.direction = COUNTERCLOCKWISE =>
             PatternCoords(patCells) =
               {<<pr - (k[2] - pc), pc + (k[1] - pr)>> : k \in PatternCoords(patLast.from)}

\* a pattern of three cells without rotational symmetry was turned clockwise
\* about a pivot with different row and column
C21_Witness ==
  /\ patLast.op = "rotate"
  /\ patLast.direction = CLOCKWISE
  /\ patLast.row # patLast.column
  /\ Cardinality(PatternCoords(patLast.from)) = 3
  /\ PatternCoords(patCells) # PatternCoords(patLast.from)
  /\ PatternCoords(Rotate(patCells, CLOCKWISE, patLast.row, patLast.column))
       # PatternCoords(patLast.from)

(***************************************************************************)
(* Further properties of the incremental Board, under Spec                 *)
(***************************************************************************)
\* the coordinates of the live cells of a cell list
AliveCoords(pattern) ==
  {keyFromCell(pattern[i]) : i \in {j \in 1..Len(pattern) : pattern[j].alive}}

\* the coordinates a check of get() looks at: every key of either map and a
\* box around the edited region
ProbeKeys(b) ==
  MapKeys(b.active) \cup MapKeys(b.stable)
    \cup {<<r, c>> : r \in (0 - 1)..(MaxRow + 1), c \in (0 - 1)..(MaxCol + 1)}

\* C22: add(pattern) makes every coordinate alive in the pattern alive on the
\* board and leaves the aliveness of every other coordinate as it was; no live
\* cell of the board dies.
C22_AddOverlaysLiveCells ==
  [][lastOp'.op = "add" =>
       LET after == Board(activeCells', stableCells')
           added == AliveCoords(lastOp'.pattern)
       IN  /\ LiveCoords(after) = LiveCoords(board) \cup added
           /\ \A k \in ProbeKeys(board) \cup ProbeKeys(after) :
                Get(after, k[1], k[2]).alive
                  = (Get(board, k[1], k[2]).alive \/ k \in added)]_vars

\* a pattern with a dead cell at (0, 1) was added to a board on which (0, 1)
\* and a cell outside the pattern are alive
C22_Witness ==
  /\ lastOp.op = "add"
  /\ lastOp.pattern = GapPattern
  /\ Get(board, 0, 1).alive
  /\ Get(board, 1, 0).alive
  /\ Get(board, 0, 0).alive

\* C23: get() returns a cell with the asked row and column for every
\* coordinate, dead when the coordinate is in neither map, and liveCells()
\* yields exactly the coordinates for which get() is alive, each once: the
\* alive entries of the active map and then all entries of the stable map.
C23_GetAndLiveCellsAgree ==
  /\ \A k \in ProbeKeys(board) :
       /\ Get(board, k[1], k[2]).row = k[1]
       /\ Get(board, k[1], k[2]).column = k[2]
       /\ Get(board, k[1], k[2]).alive \in BOOLEAN
       /\ k \notin MapKeys(activeCells) \cup MapKeys(stableCells)
            => ~Get(board, k[1], k[2]).alive
  /\ LiveCoords(board) = {k \in ProbeKeys(board) : Get(board, k[1], k[2]).alive}
  /\ Cardinality(LiveCoords(board)) = Len(LiveCells(board))
  /\ Len(LiveCells(board)) =
       Cardinality({i \in 1..Len(activeCells) : activeCells[i].value.alive})
         + Len(stableCells)
  /\ \A i \in 1..Len(LiveCells(board)) :
       Get(board, LiveCells(board)[i].row, LiveCells(board)[i].column) = LiveCells(board)[i]

\* after a step both maps hold cells, and the active map holds live and dead
\* ones
C23_Witness ==
  /\ lastOp.op = "step"
  /\ stableCells # EmptyMap
  /\ \E i, j \in 1..Len(activeCells) :
       activeCells[i].value.alive /\ ~activeCells[j].value.alive

\* the neighbours of a set of coordinates
NeighborsOfAll(keys) == UNION {NeighborKeys(k[1], k[2]) : k \in keys}

\* C27: after step(), with C the active cells whose aliveness changed, the
\* keys of _activeCells are C and the neighbours of C; an active cell that
\* stayed alive away from C is in _stableCells, one that stayed dead away from
\* C is in neither map, and stable cells away from C stay in _stableCells.
C27_StepReactivatesChangedNeighborhood ==
  [][lastOp'.op = "step" =>
       LET C    == Changing(board)
           near == C \cup NeighborsOfAll(C)
       IN  /\ MapKeys(activeCells') = near
           /\ \A k \in MapKeys(activeCells) \ near :
                IF MapGet(activeCells, k).alive
                  THEN k \in MapKeys(stableCells') /\ MapGet(stableCells', k).alive
                  ELSE k \notin MapKeys(activeCells') \cup MapKeys(stableCells')
           /\ \A k \in MapKeys(stableCells) \ near :
                k \in MapKeys(stableCells')]_vars

\* a step changed some cells while a live cell away from them is in
\* _stableCells
C27_Witness ==
  /\ lastOp.op = "step"
  /\ lastOp.changed > 0
  /\ stableCells # EmptyMap
  /\ activeCells # EmptyMap

\* C28: a step() in which no active cell changes aliveness leaves
\* _activeCells empty, and a step() on an empty _activeCells leaves both maps
\* and the live cells as they are.
C28_QuietStepLeavesNothingActive ==
  [][lastOp'.op = "step" =>
       /\ Changing(board) = {} =>
            /\ activeCells' = EmptyMap
            /\ LiveCoords(Board(activeCells', stableCells')) = LiveCoords(board)
       /\ activeCells = EmptyMap =>
            /\ activeCells' = activeCells
            /\ stableCells' = stableCells
            /\ LiveCoords(Board(activeCells', stableCells')) = LiveCoords(board)]_vars

\* a still life was stepped again after the step that left nothing active
C28_Witness ==
  /\ lastOp.op = "step"
  /\ lastOp.activeBefore = 0
  /\ lastOp.changed = 0
  /\ activeCells = EmptyMap
  /\ Len(stableCells) >= 4

\* the coordinates that can differ from a dead cell without live
\* neighbors: the keys of both maps, the coordinates around them and the
\* coordinates around the edited window
NearKeys(b) == ProbeKeys(b) \cup NeighborsOfAll(MapKeys(b.active) \cup MapKeys(b.stable))

\* C34: every coordinate that is not a key of _activeCells is a fixed point
\* of the rule: Cell.next with its live-neighbor count leaves it as it is
C34_InactiveCellsAreFixedPoints ==
  \A k \in NearKeys(board) \ MapKeys(activeCells) :
    CellNext(Get(board, k[1], k[2]),
             NumLiveNeighbors(board, Get(board, k[1], k[2]))).alive
      = Get(board, k[1], k[2]).alive

\* edits and a step have left live cells in _stableCells next to cells
\* that are still active
C34_Witness ==
  /\ lastOp.op = "step"
  /\ Len(stableCells) >= 2
  /\ activeCells # EmptyMap
  /\ \E i \in 1..Len(stableCells) :
       NeighborKeys(stableCells[i].key[1], stableCells[i].key[2])
         \cap MapKeys(activeCells) # {}

\* C39: after a step every live cell was alive before the step or is next
\* to a cell that was
C39_StepGrowsByAtMostOne ==
  [][lastOp'.op = "step" =>
       \A k \in LiveCoords(Board(activeCells', stableCells')) :
         \/ k \in LiveCoords(board)
         \/ NeighborKeys(k[1], k[2]) \cap LiveCoords(board) # {}]_vars

\* after a step that changed cells, a cell is alive outside the rows and
\* columns that set and add can reach
C39_Witness ==
  /\ lastOp.op = "step"
  /\ lastOp.changed > 0
  /\ \E k \in LiveCoords(board) : k[1] < 0 \/ k[1] > MaxRow \/ k[2] < 0 \/ k[2] > MaxCol

(***************************************************************************)
(* Decoder specification: the text is drawn in Init, an optional header    *)
(* followed by one line of pattern data, and decoded once by both          *)
(* revisions.                                                              *)
(***************************************************************************)
RleCharacters == {"b", "o", "$", "!", "x", "0", "1", "2"}

RleBodies == UNION {[1..n -> RleCharacters] : n \in 0..MaxRleLen}

\* no header, or a comment line and a size line
RleHeaders ==
  {<<>>, << <<"#", "C", " ", "!">>, <<"x", " ", "=", " ", "2">> >>}

RleInit ==
  /\ BoardIdle /\ CellIdle /\ TimelineIdle /\ HeapIdle /\ SeedIdle /\ PatternIdle
  /\ LifeIdle /\ DragIdle /\ UiIdle
  /\ rleIn \in {header \o <<body>> : header \in RleHeaders, body \in RleBodies}
  /\ rleOut = NoRleOutcome

DoDecode ==
  /\ ~rleOut.called
  /\ rleOut' = [called |-> TRUE,
                cells |-> CellsFromRle(rleIn),
                pattern |-> FromPreset(rleIn)]
  /\ UNCHANGED <<rleIn, boardVars, cellVars, timelineVars, heapVars, seedVars,
                 patternVars, lifeVars, dragVars, uiVars>>

RleNext == DoDecode

RleSpec == RleInit /\ [][RleNext]_vars

\* the pattern data of the text: its last line
RleBody == rleIn[Len(rleIn)]

HasEnd(body) == \E i \in 1..Len(body) : body[i] = "!"

\* C24: decoding pattern data without the "!" tag throws an Error, in
\* cellsFromRle and in Pattern.fromPreset, and nothing is returned
C24_MissingEndThrows ==
  (rleOut.called /\ ~HasEnd(RleBody)) =>
    /\ rleOut.cells.threw /\ rleOut.cells.error = "Error"
    /\ rleOut.cells.value = <<>>
    /\ rleOut.pattern.threw /\ rleOut.pattern.error = "Error"
    /\ rleOut.pattern.value = <<>>

\* data with live cells but no "!" was decoded, after a header that has one
C24_Witness ==
  /\ rleOut.called
  /\ ~HasEnd(RleBody)
  /\ Len(rleIn) > 1
  /\ \E i \in 1..Len(RleBody) : RleBody[i] = "o"
  /\ rleOut.cells.threw

\* the data before the first "!"
BeforeEnd(body) ==
  SubSeq(body, 1, (CHOOSE i \in 1..Len(body) :
                     body[i] = "!" /\ \A j \in 1..(i - 1) : body[j] # "!") - 1)

ValidSymbol(character) == IsDigit(character) \/ character \in {"b", "o", "$"}

\* C25: decoding pattern data with a symbol before the "!" that is not a
\* digit, "b", "o" or "$" throws, in both revisions
C25_InvalidSymbolThrows ==
  (/\ rleOut.called
   /\ HasEnd(RleBody)
   /\ \E i \in 1..Len(BeforeEnd(RleBody)) : ~ValidSymbol(BeforeEnd(RleBody)[i])) =>
    rleOut.cells.threw /\ rleOut.pattern.threw

\* well-formed pattern data: before the first "!" there are only digits and
\* the tags b, o and $, every run of digits is followed by a tag and spells
\* a positive number
WellFormed(body) ==
  /\ HasEnd(body)
  /\ LET data == BeforeEnd(body)
     IN  /\ \A i \in 1..Len(data) : ValidSymbol(data[i])
         /\ data # <<>> => ~IsDigit(data[Len(data)])
         /\ \A i \in 1..Len(data) :
              (IsDigit(data[i]) /\ (i = 1 \/ ~IsDigit(data[i - 1]))) =>
                \E j \in i..Len(data) :
                  /\ data[j] # "0"
                  /\ \A k \in i..j : IsDigit(data[k])

RECURSIVE ReferenceTags(_, _)
\* the reference expansion of well-formed data: every tag as often as the
\* number before it says, once when there is none (count is the number
\* read so far, 0 for none)
ReferenceTags(data, count) ==
  IF data = <<>> THEN <<>>
  ELSE IF IsDigit(Head(data))
       THEN ReferenceTags(Tail(data), 10 * count + DigitValue(Head(data)))
       ELSE [i \in 1..(IF count = 0 THEN 1 ELSE count) |-> Head(data)]
            \o ReferenceTags(Tail(data), 0)

\* the coordinates the reference expansion makes alive: the row of a tag is
\* the number of "$" before it, its column the number of tags since the
\* last "$"
ReferenceCoords(tags) ==
  {<<Cardinality({j \in 1..(i - 1) : tags[j] = "$"}),
     Cardinality({j \in 1..(i - 1) : \A k \in j..(i - 1) : tags[k] # "$"})>> :
     i \in {n \in 1..Len(tags) : tags[n] = "o"}}

\* C29: for well-formed pattern data both revisions return exactly the
\* alive cells of the reference expansion, each of them once, whatever
\* follows the "!"
C29_DecodesReferenceExpansion ==
  (rleOut.called /\ WellFormed(RleBody)) =>
    LET expected == ReferenceCoords(ReferenceTags(BeforeEnd(RleBody), 0))
        cells == rleOut.cells.value
    IN  /\ ~rleOut.cells.threw /\ ~rleOut.pattern.threw
        /\ \A i \in 1..Len(cells) : cells[i].alive
        /\ PatternCoords(cells) = expected
        /\ Len(cells) = Cardinality(expected)
        /\ rleOut.pattern.value = cells

\* a run count of at least two was decoded into cells of a later row
C29_Witness ==
  /\ rleOut.called
  /\ WellFormed(RleBody)
  /\ \E i \in 1..Len(RleBody) : RleBody[i] = "2"
  /\ Len(rleOut.cells.value) >= 2
  /\ \E i \in 1..Len(rleOut.cells.value) : rleOut.cells.value[i].row >= 1

(***************************************************************************)
(* Drag specification: a drag is created at a point with a wiggle and the  *)
(* caller replaces it by the result of every to() call.                    *)
(***************************************************************************)
DragCoords == 0..MaxDragCoord

Wiggles == (0 - 1)..MaxWiggle

DragInit ==
  /\ BoardIdle /\ CellIdle /\ TimelineIdle /\ HeapIdle /\ SeedIdle /\ PatternIdle
  /\ RleIdle /\ LifeIdle /\ UiIdle
  /\ \E x \in DragCoords, y \in DragCoords, wiggle \in Wiggles :
       /\ drag = NewDrag(x, y, wiggle).drag
       /\ dragLast = [NoDragOp EXCEPT !.op = "new",
                                      !.threw = NewDrag(x, y, wiggle).threw,
                                      !.x = x, !.y = y,
                                      !.previous = Point(x, y),
                                      !.origin = Point(x, y),
                                      !.wiggle = wiggle]

\* whether (x, y) is closer than the wiggle to the point the drag was
\* created at
WithinWiggle(x, y) ==
  DistanceSquared(dragLast.origin.x, dragLast.origin.y, x, y)
    < dragLast.wiggle * dragLast.wiggle

\* this._drag = this._drag.to(x, y)
DoTo ==
  \E x \in DragCoords, y \in DragCoords :
    /\ ~dragLast.threw
    /\ drag' = To(drag, x, y)
    /\ dragLast' = [dragLast EXCEPT
                      !.op = "to", !.x = x, !.y = y,
                      !.previous = Point(dragLast.x, dragLast.y),
                      !.phase = IF dragLast.phase = "near"
                                THEN IF WithinWiggle(x, y) THEN "near"
                                     ELSE "activating"
                                ELSE "active"]
    /\ UNCHANGED <<boardVars, cellVars, timelineVars, heapVars, seedVars,
                   patternVars, rleVars, lifeVars, uiVars>>

DragNext == DoTo

DragSpec == DragInit /\ [][DragNext]_vars

\* C30: while every to() so far went to a point closer than the wiggle to
\* where the drag was created, the drag is not activated, has not moved and
\* reports no offset; the first to() to a point at least the wiggle away
\* activates it; every to() after that one reports the offset of its point
\* from the position before
C30_DragActivatesBeyondWiggle ==
  ~dragLast.threw =>
    /\ dragLast.phase = "near" =>
         /\ ~drag.active
         /\ ~Moved(drag)
         /\ DeltaX(drag) = 0 /\ DeltaY(drag) = 0
    /\ dragLast.phase = "activating" => drag.active
    /\ dragLast.phase = "active" =>
         /\ drag.active
         /\ DeltaX(drag) = dragLast.x - dragLast.previous.x
         /\ DeltaY(drag) = dragLast.y - dragLast.previous.y

\* an activated drag went on to a third point, away from both the point it
\* was created at and the point that activated it
C30_Witness ==
  /\ dragLast.phase = "active"
  /\ dragLast.wiggle > 1
  /\ dragLast.previous # dragLast.origin
  /\ drag.start # dragLast.previous
  /\ DeltaX(drag) # 0
  /\ DeltaY(drag) # 0

(***************************************************************************)
(* Life specification: the play/pause control is used, the game is edited  *)
(* and pending timers fire, in any order and in any of the revisions.      *)
(***************************************************************************)
LifeInit ==
  /\ BoardIdle /\ CellIdle /\ TimelineIdle /\ HeapIdle /\ SeedIdle /\ PatternIdle
  /\ RleIdle /\ DragIdle /\ UiIdle
  /\ LifeIdle

OtherThanLife ==
  <<boardVars, cellVars, timelineVars, heapVars, seedVars, patternVars,
    rleVars, dragVars, uiVars>>

\* a handler that calls setTimeout or setInterval needs a timer id
TimerLeft == life.nextTimer <= MaxTimers

LifeEvent(op, revision, wasPlaying) ==
  [op |-> op, revision |-> revision, wasPlaying |-> wasPlaying,
   paused |-> IF op = "pause" THEN lifeLast.paused \cup {revision}
              ELSE IF op = "play" THEN lifeLast.paused \ {revision}
              ELSE lifeLast.paused]

\* the play/pause button or the space key (src/src/life.js)
DoPlayPause ==
  /\ life.react.isPlaying \/ TimerLeft
  /\ life' = PlayPause(life)
  /\ lifeLast' = LifeEvent(IF life.react.isPlaying THEN "pause" ELSE "play",
                           "react", life.react.isPlaying)
  /\ UNCHANGED OtherThanLife

\* a click on the board, or the next, previous or clear button
DoStopPlaying ==
  /\ life' = StopPlaying(life)
  /\ lifeLast' = LifeEvent("edit", "react", life.react.isPlaying)
  /\ UNCHANGED OtherThanLife

\* a pending timeout of the React component fires and runs tick
DoReactTimeout ==
  \E id \in life.react.timeouts :
    /\ life.react.isPlaying => TimerLeft
    /\ life' = ReactTick([life EXCEPT !.react.timeouts = @ \ {id}])
    /\ lifeLast' = LifeEvent("timer", "react", life.react.isPlaying)
    /\ UNCHANGED OtherThanLife

\* the Play checkbox or the space key (src/src/Life.vue), or any other
\* assignment to playing
DoSetPlaying ==
  \E playing \in BOOLEAN :
    /\ (playing /\ ~life.vue.playing) => TimerLeft
    /\ life' = SetPlaying(life, playing)
    /\ lifeLast' = LifeEvent(IF playing = life.vue.playing THEN "none"
                             ELSE IF playing THEN "play" ELSE "pause",
                             "vue", life.vue.playing)
    /\ UNCHANGED OtherThanLife

\* a pending timeout of the Vue component fires and runs tick
DoVueTimeout ==
  \E id \in life.vue.timeouts :
    /\ life.vue.playing => TimerLeft
    /\ life' = VueTick([life EXCEPT !.vue.timeouts = @ \ {id}])
    /\ lifeLast' = LifeEvent("timer", "vue", life.vue.playing)
    /\ UNCHANGED OtherThanLife

\* play() (src/life.js)
DoPlay ==
  /\ ~Playing(life) => TimerLeft
  /\ life' = Play(life)
  /\ lifeLast' = LifeEvent(IF Playing(life) THEN "none" ELSE "play",
                           "classic", Playing(life))
  /\ UNCHANGED OtherThanLife

\* pause() (src/life.js)
DoPause ==
  /\ life' = Pause(life)
  /\ lifeLast' = LifeEvent(IF Playing(life) THEN "pause" ELSE "none",
                           "classic", Playing(life))
  /\ UNCHANGED OtherThanLife

\* the interval fires; it stays pending until it is cleared
DoInterval ==
  \E id \in life.classic.intervals :
    /\ life' = IntervalTick(life)
    /\ lifeLast' = LifeEvent("timer", "classic", Playing(life))
    /\ UNCHANGED OtherThanLife

LifeNext ==
  \/ DoPlayPause
  \/ DoStopPlaying
  \/ DoReactTimeout
  \/ DoSetPlaying
  \/ DoVueTimeout
  \/ DoPlay
  \/ DoPause
  \/ DoInterval

LifeSpec == LifeInit /\ [][LifeNext]_vars

C35_AtMostOneTickPending == Cardinality(life.react.timeouts) <= 1

(***************************************************************************)
(* DragMotion specification: a DragMotion is created at some point and     *)
(* update is called with any sequence of points.                           *)
(***************************************************************************)
MotionXs == 0..MaxMotionX

MotionYs == 0..MaxMotionY

OtherThanUi ==
  <<boardVars, cellVars, timelineVars, heapVars, seedVars, patternVars,
    rleVars, lifeVars, dragVars>>

MotionInit ==
  /\ BoardIdle /\ CellIdle /\ TimelineIdle /\ HeapIdle /\ SeedIdle /\ PatternIdle
  /\ RleIdle /\ LifeIdle /\ DragIdle /\ ZoomIdle /\ AppIdle /\ CanvasIdle
  /\ \E x \in MotionXs, y \in MotionYs :
       /\ motion = NewDragMotion(x, y)
       /\ motionLast = [NoMotionOp EXCEPT !.origin = Point(x, y)]

DoUpdate ==
  \E x \in MotionXs, y \in MotionYs :
    /\ motion' = Update(motion, x, y).motion
    /\ motionLast' =
         [op |-> "update", origin |-> motionLast.origin,
          crossed |-> motionLast.crossed
                        \/ PointDistanceSquared(motionLast.origin, Point(x, y))
                             >= DRAG_THRESHOLD * DRAG_THRESHOLD]
    /\ UNCHANGED <<OtherThanUi, zoomVars, appVars, canvasVars>>

MotionNext == DoUpdate

MotionSpec == MotionInit /\ [][MotionNext]_vars

\* C31: moved is true exactly when some update so far was at distance at
\* least DRAG_THRESHOLD from the point the DragMotion was created at
C31_MovedIffPastThreshold == MotionMoved(motion) <=> motionLast.crossed

(***************************************************************************)
(* Zoom specification: one revision of the Life component receives slider  *)
(* inputs with any value and wheel scrolls by any amount, both counted in  *)
(* halves.                                                                 *)
(***************************************************************************)
SliderValues == (0 - 2)..MaxSliderHalves

WheelDeltas == (0 - MaxWheelHalves)..MaxWheelHalves

ZoomInit ==
  /\ BoardIdle /\ CellIdle /\ TimelineIdle /\ HeapIdle /\ SeedIdle /\ PatternIdle
  /\ RleIdle /\ LifeIdle /\ DragIdle /\ MotionIdle /\ AppIdle /\ CanvasIdle
  /\ zoom \in {NewReactZoom, NewVueZoom}
  /\ zoomLast = NoZoomOp

DoSlider ==
  \E value \in SliderValues :
    /\ zoom' = IF zoom.revision = "react" THEN HandleSizeChange(zoom, value)
               ELSE ZoomInput(zoom, value)
    /\ zoomLast' = [op |-> "slider",
                    integral |-> zoomLast.integral /\ IsInteger(value)]
    /\ UNCHANGED <<OtherThanUi, motionVars, appVars, canvasVars>>

DoWheel ==
  \E deltaY \in WheelDeltas :
    /\ zoom' = IF zoom.revision = "react" THEN HandleWheel(zoom, deltaY)
               ELSE ZoomWheel(zoom, deltaY)
    /\ zoomLast' = [zoomLast EXCEPT !.op = "wheel"]
    /\ UNCHANGED <<OtherThanUi, motionVars, appVars, canvasVars>>

ZoomNext == DoSlider \/ DoWheel

ZoomSpec == ZoomInit /\ [][ZoomNext]_vars

InRange(h) == Halves(CELL_SIZE_MIN) <= h /\ h <= Halves(CELL_SIZE_MAX)

\* C32 as stated: after any zoom events the component's cell size is an
\* integer within [CELL_SIZE_MIN, CELL_SIZE_MAX]
C32_CellSizeIsIntegerInRange == InRange(zoom.cellSize) /\ IsInteger(zoom.cellSize)

\* C32 amended: after any zoom events the component's cell size is within
\* [CELL_SIZE_MIN, CELL_SIZE_MAX], and it is an integer when every slider
\* value so far was an integer
C32_CellSizeInRange ==
  /\ InRange(zoom.cellSize)
  /\ zoomLast.integral => IsInteger(zoom.cellSize)

\* a wheel scroll after integer slider values only was cut off at
\* CELL_SIZE_MAX
C32_Witness ==
  /\ zoomLast.op = "wheel"
  /\ zoomLast.integral
  /\ zoom.cellSize = Halves(CELL_SIZE_MAX)

(***************************************************************************)
(* React Life specification: the board is clicked with and without a       *)
(* selected pattern, and the game is played, paused, stepped and undone in *)
(* between.                                                                *)
(***************************************************************************)
AppCoords == 0..MaxAppCoord

\* the patterns a preset can select
AppPatterns == {{<<0, 0>>}, {<<0, 1>>, <<1, 0>>, <<1, 1>>}}

\* the timeline can take one more entry
AppCanGrow == Len(app.timeline.past) < MaxAppPast

AppInit ==
  /\ BoardIdle /\ CellIdle /\ TimelineIdle /\ HeapIdle /\ SeedIdle /\ PatternIdle
  /\ RleIdle /\ LifeIdle /\ DragIdle /\ MotionIdle /\ ZoomIdle /\ CanvasIdle
  /\ AppIdle

AppEvent(op) == [NoAppOp EXCEPT !.op = op]

DoAppClick ==
  \E row \in AppCoords, column \in AppCoords :
    /\ AppCanGrow
    /\ app' = HandleClick(app, row, column)
    /\ appLast' = [op |-> "click", row |-> row, column |-> column,
                   selected |-> ~app.selectedPattern.null,
                   before |-> app.timeline.pattern]
    /\ UNCHANGED <<OtherThanUi, motionVars, zoomVars, canvasVars>>

DoAppPresetChange ==
  \E pattern \in AppPatterns :
    /\ app' = HandlePresetChange(app, pattern)
    /\ appLast' = AppEvent("preset")
    /\ UNCHANGED <<OtherThanUi, motionVars, zoomVars, canvasVars>>

DoAppPlayPause ==
  /\ app.playing \/ AppCanGrow
  /\ app' = AppPlayPause(app)
  /\ appLast' = AppEvent("playPause")
  /\ UNCHANGED <<OtherThanUi, motionVars, zoomVars, canvasVars>>

DoAppTick ==
  /\ app.playing
  /\ AppCanGrow
  /\ app' = AppTick(app)
  /\ appLast' = AppEvent("tick")
  /\ UNCHANGED <<OtherThanUi, motionVars, zoomVars, canvasVars>>

DoAppNext ==
  /\ AppCanGrow
  /\ app' = AppNext(app)
  /\ appLast' = AppEvent("next")
  /\ UNCHANGED <<OtherThanUi, motionVars, zoomVars, canvasVars>>

DoAppPrevious ==
  /\ app' = AppPrevious(app)
  /\ appLast' = AppEvent("previous")
  /\ UNCHANGED <<OtherThanUi, motionVars, zoomVars, canvasVars>>

AppNextAction ==
  \/ DoAppClick \/ DoAppPresetChange \/ DoAppPlayPause \/ DoAppTick
  \/ DoAppNext \/ DoAppPrevious

AppSpec == AppInit /\ [][AppNextAction]_vars

\* C33: after a click on (row, column) with no pattern selected the
\* present pattern differs from the one before the click at exactly
\* (row, column), the game is paused, the generation is 0, and
\* hasPrevious() is true with previous() giving back the pattern from
\* before the click
C33_ClickInvertsOneCell ==
  (appLast.op = "click" /\ ~appLast.selected) =>
    /\ (app.timeline.pattern \ appLast.before)
         \cup (appLast.before \ app.timeline.pattern)
         = {<<appLast.row, appLast.column>>}
    /\ ~app.playing
    /\ app.timeline.generation = 0
    /\ HasPrevious(app.timeline)
    /\ ~Previous(app.timeline).threw
    /\ Previous(app.timeline).timeline.pattern = appLast.before

\* a live cell of a board with other live cells was clicked with no
\* pattern selected, after the timeline had entries to go back to
C33_Witness ==
  /\ appLast.op = "click"
  /\ ~appLast.selected
  /\ <<appLast.row, appLast.column>> \in appLast.before
  /\ app.timeline.pattern # EmptyPattern
  /\ Len(app.timeline.past) >= 2

(***************************************************************************)
(* React Board specification: the canvas receives mouse events in any      *)
(* order the browser can deliver them.  The left button can go down and up *)
(* while the pointer is off the canvas, which delivers no event to it; a   *)
(* mousemove reports the left button in event.buttons while it is held.    *)
(***************************************************************************)
CanvasXs == 0..MaxCanvasX

CanvasYs == 0..MaxCanvasY

\* event.button: 0 is the left button, 2 the right one
Buttons == {0, 2}

CanvasInit ==
  /\ BoardIdle /\ CellIdle /\ TimelineIdle /\ HeapIdle /\ SeedIdle /\ PatternIdle
  /\ RleIdle /\ LifeIdle /\ DragIdle /\ MotionIdle /\ ZoomIdle /\ AppIdle
  /\ CanvasIdle

\* the record of an event whose handler had the given outcome
CanvasEvent(op, button, outcome) ==
  [canvasLast EXCEPT !.op = op, !.button = button, !.threw = outcome.threw,
                     !.clicked = outcome.clicked]

DoMouseDown ==
  \E button \in Buttons, x \in CanvasXs, y \in CanvasYs :
    /\ button = 0 => ~canvas.leftHeld
    /\ LET outcome == HandleMouseDown(canvas.drag, button, x, y) IN
         /\ canvas' = [drag |-> outcome.drag,
                       leftHeld |-> canvas.leftHeld \/ button = 0]
         /\ canvasLast' =
              IF button = 0
              THEN [CanvasEvent("mousedown", button, outcome) EXCEPT
                      !.pressed = TRUE, !.down = Point(x, y), !.far = FALSE]
              ELSE CanvasEvent("mousedown", button, outcome)
    /\ UNCHANGED <<OtherThanUi, motionVars, zoomVars, appVars>>

DoMouseMove ==
  \E x \in CanvasXs, y \in CanvasYs :
    /\ LET outcome == HandleMouseMove(canvas.drag, canvas.leftHeld, x, y) IN
         /\ canvas' = [canvas EXCEPT !.drag = outcome.drag]
         /\ canvasLast' =
              [CanvasEvent("mousemove", 0, outcome) EXCEPT
                 !.far = canvasLast.far
                           \/ (/\ canvas.leftHeld
                               /\ canvasLast.pressed
                               /\ PointDistanceSquared(canvasLast.down, Point(x, y))
                                    >= DefaultWiggle * DefaultWiggle)]
    /\ UNCHANGED <<OtherThanUi, motionVars, zoomVars, appVars>>

DoMouseUp ==
  \E button \in Buttons, x \in CanvasXs, y \in CanvasYs :
    /\ button = 0 => canvas.leftHeld
    /\ LET outcome == HandleMouseUp(canvas.drag, button, x, y) IN
         /\ canvas' = [drag |-> outcome.drag,
                       leftHeld |-> canvas.leftHeld /\ button # 0]
         /\ canvasLast' = CanvasEvent("mouseup", button, outcome)
    /\ UNCHANGED <<OtherThanUi, motionVars, zoomVars, appVars>>

DoCanvasWheel ==
  /\ canvas' = [canvas EXCEPT !.drag = HandleOther(canvas.drag).drag]
  /\ canvasLast' = CanvasEvent("wheel", 0, HandleOther(canvas.drag))
  /\ UNCHANGED <<OtherThanUi, motionVars, zoomVars, appVars>>

DoMouseOut ==
  /\ canvas' = [canvas EXCEPT !.drag = HandleOther(canvas.drag).drag]
  /\ canvasLast' = CanvasEvent("mouseout", 0, HandleOther(canvas.drag))
  /\ UNCHANGED <<OtherThanUi, motionVars, zoomVars, appVars>>

\* the left button goes down while the pointer is off the canvas
DoPressOutside ==
  /\ ~canvas.leftHeld
  /\ canvas' = [canvas EXCEPT !.leftHeld = TRUE]
  /\ canvasLast' = [NoCanvasOp EXCEPT !.op = "pressOutside"]
  /\ UNCHANGED <<OtherThanUi, motionVars, zoomVars, appVars>>

\* the left button goes up while the pointer is off the canvas
DoReleaseOutside ==
  /\ canvas.leftHeld
  /\ canvas' = [canvas EXCEPT !.leftHeld = FALSE]
  /\ canvasLast' = [NoCanvasOp EXCEPT !.op = "releaseOutside"]
  /\ UNCHANGED <<OtherThanUi, motionVars, zoomVars, appVars>>

CanvasNext ==
  \/ DoMouseDown \/ DoMouseMove \/ DoMouseUp \/ DoCanvasWheel \/ DoMouseOut
  \/ DoPressOutside \/ DoReleaseOutside

CanvasSpec == CanvasInit /\ [][CanvasNext]_vars

\* C37: the left-button mouseup that ends a press begun on the canvas
\* calls onClick only if no mousemove of that press was 5 pixels or more
\* away from the mousedown position
C37_ClickOnlyWithoutFarMove ==
  (/\ canvasLast.op = "mouseup"
   /\ canvasLast.button = 0
   /\ canvasLast.pressed
   /\ canvasLast.clicked) => ~canvasLast.far

\* C38: no handler reads a property of _drag while _drag is null
C38_NeverReadsNullDrag == ~canvasLast.threw

====
